---- MODULE Spec2Model ----
(***************************************************************************)
(* Verification model of CityEngine for Houdini (palladio).                *)
(*                                                                         *)
(*   SpecHoles : HoleConverter::extractHoles / detectFaceAndHoles          *)
(*               (src/src/palladio/HoleConverter.cpp) applied to bounded   *)
(*               edge sources.                                             *)
(*   SpecRM    : PRTContext::getResolveMap (src/src/palladio/              *)
(*               PRTContext.cpp) called by concurrent threads, and the     *)
(*               destructor; the Resolve-Map Cache follows spec.md 4.2.    *)
(*   SpecMC    : ModelConverter (src/src/palladio/ModelConverter.cpp):     *)
(*               generate worker threads issuing attr* and add callbacks   *)
(*               on one converter, then buildHoles.                        *)
(*   SpecSC    : ShapeConverter::get / put (src/src/palladio/              *)
(*               ShapeConverter.cpp): primitives to initial shapes and     *)
(*               their random seeds.                                       *)
(*   SpecSG    : detail::serializeGeometry (src/src/codec/encoder/         *)
(*               HoudiniEncoder.cpp).                                      *)
(*   SpecCP    : the vertex normals and the texture-coordinate loops of    *)
(*               createPrimitives (src/src/palladio/ModelConverter.cpp).   *)
(*   SpecEnc   : HoudiniEncoder::encode (HoudiniEncoder.cpp).              *)
(*   SpecCG    : HoudiniEncoder::convertGeometry and the face-range loop   *)
(*               of ModelConverter::add.                                   *)
(*   SpecFN    : ensureNonExistingFile (Utils.cpp).                        *)
(*   SpecLog   : logging::ScopedLogLevelModifier (LogHandler.h).           *)
(*   SpecRT    : a primitive through ShapeConverter, a pass-through        *)
(*               engine and serializeGeometry.                             *)
(***************************************************************************)
EXTENDS Integers, Sequences, FiniteSets, TLC

VARIABLES
    hpoly,      \* description of the polygon handed to extractHoles
    hsrc,       \* the EdgeSource built from it (edges, point indices, isBridge)
    hres        \* what the extractHoles call produced ("idle" before the call)

hvars == <<hpoly, hsrc, hres>>

VARIABLES
    rmBuild,    \* [test, director]: PLD_TEST_EXPORTS defined; OPgetDirector() non-null
    rmMutex,    \* mResolveMapCacheMutex: the thread holding it, or NoThread
    rmPc,       \* per thread: its position in getResolveMap
    rmArg,      \* per thread: the rpk path of its current call
    rmCalls,    \* the number of calls completed
    rmLookup,   \* per thread: lookupResult = [map, status]
    rmTrace,    \* per thread: what its current call did, in order
    rmForced,   \* per thread: the Assign nodes its current call forced to recook
    rmDone,     \* the call completed last: [arg, map, status, trace, forced]
    rmCache,    \* ResolveMapCache: path -> entry
    rmLru,      \* ResolveMapCache: the cached paths, most recently used first
    rmFileTime, \* per package path: modification time of the file on disk
    rmReleased  \* what ~PRTContext has released or deregistered so far, in order

rmvars == <<rmBuild, rmMutex, rmPc, rmArg, rmCalls, rmLookup, rmTrace, rmForced,
            rmDone, rmCache, rmLru, rmFileTime, rmReleased>>

VARIABLES
    mcEmit,        \* emitAttributes: the encoder forwards generic attributes
    mcMutex,       \* mDetailMutex: the worker holding it, or NoThread
    mcPc,          \* per worker: its position in the attr callback / in add,
                   \* "crashed" once the process has died
    mcJob,         \* per worker: [id, holes] of the shape it is delivering
    mcNext,        \* the number of shapes handed to the workers so far
    mcAcc,         \* per worker: its access in progress to mShapeAttributeBuilders
    mcBuilders,    \* mShapeAttributeBuilders: [ids with a builder, size()]
    mcRaced,       \* an unsynchronized conflicting access to the builders happened
    mcDetail,      \* mDetail: what has been created in the output geometry
    mcLast,        \* the add call and step that wrote to mDetail last
    mcHoleGroups,  \* mHoleGroups: the deferred hole groups, [id, by, lock, merges]
    mcAdded,       \* per shape id: hole faces of its completed add, or -1
    mcBuilt,       \* number of buildHoles calls made
    mcStatuses,    \* mStatuses: one prt::Status per initial shape
    mcErr          \* the last generateError call: [n, idx, status, ret, detail]

mcvars == <<mcEmit, mcMutex, mcPc, mcJob, mcNext, mcAcc, mcBuilders, mcRaced,
            mcDetail, mcLast, mcHoleGroups, mcAdded, mcBuilt, mcStatuses, mcErr>>

VARIABLES
    scIn,      \* the detail and node settings handed to ShapeConverter::get / put
    scPc,      \* "in" before get, "got" after get, "put" after put, "crashed"
    scShapes,  \* ShapeData: one entry per initial shape (partition)
    scOut      \* per primitive: the random-seed attribute written by put

scvars == <<scIn, scPc, scShapes, scOut>>

VARIABLES
    sgIn,      \* the instances handed to serializeGeometry: [geometries, materials]
    sgPc,      \* "in" before the call, "scanned" after pass 1, "copied" after pass 2
    sgOut      \* the SerializedGeometry built so far

sgvars == <<sgIn, sgPc, sgOut>>

VARIABLES
    cpIn,      \* the arrays handed to ModelConverter::add / createPrimitives
    cpPc,      \* "in", "uv" while a UV set is being written, "done", "crashed"
    cpAt,      \* [uvSet, fi, uvi]: the loop variables of the UV loops
    cpOut      \* per UV set, per primitive: the UV indices read for its vertices

cpvars == <<cpIn, cpPc, cpAt, cpOut>>

VARIABLES
    encIn,     \* encoder options and the initial shape's attribute map
    encPc,     \* "leaves" while the leaf shapes are visited, "done" after add
    encLeaf,   \* the leaf shapes visited so far
    encLog     \* the callbacks issued on the HoudiniCallbacks object, in order

encvars == <<encIn, encPc, encLeaf, encLog>>

VARIABLES
    fnIn,      \* the path handed to ensureNonExistingFile and the existing files
    fnPc,      \* "in" before the call, "loop" in the collision loop, "done"
    fnPath,    \* p: [parent, name]
    fnSuf      \* [stem, suf]: the cleaned stem and the next suffix

fnvars == <<fnIn, fnPc, fnPath, fnSuf>>

VARIABLES
    logLevel,    \* the engine's global log level (prt::getLogLevel / setLogLevel)
    logScopes,   \* the live ScopedLogLevelModifier objects, innermost last
    logEntered,  \* per live scope: the level in effect when it was entered
    logHist      \* [first, exit]: the level before the outermost scope was entered,
                 \* and the last scope exit

logvars == <<logLevel, logScopes, logEntered, logHist>>

VARIABLES
    rtIn,      \* a host primitive and its uv attributes
    rtPc,      \* "in", "shape" after conversion, "mesh" after generation, "back"
    rtShape,   \* the initial shape built by ShapeConverter, then the generated mesh
    rtOut      \* the serialized geometry handed back to the host

rtvars == <<rtIn, rtPc, rtShape, rtOut>>

vars == <<hvars, rmvars, mcvars, scvars, sgvars, cpvars, encvars, fnvars,
          logvars, rtvars>>

\* the variables a specification leaves alone
holesOthers == <<rmvars, mcvars, scvars, sgvars, cpvars, encvars, fnvars,
                  logvars, rtvars>>

rmOthers == <<hvars, mcvars, scvars, sgvars, cpvars, encvars, fnvars,
               logvars, rtvars>>

mcOthers == <<hvars, rmvars, scvars, sgvars, cpvars, encvars, fnvars,
               logvars, rtvars>>

scOthers == <<hvars, rmvars, mcvars, sgvars, cpvars, encvars, fnvars,
               logvars, rtvars>>

sgOthers == <<hvars, rmvars, mcvars, scvars, cpvars, encvars, fnvars,
               logvars, rtvars>>

cpOthers == <<hvars, rmvars, mcvars, scvars, sgvars, encvars, fnvars,
               logvars, rtvars>>

encOthers == <<hvars, rmvars, mcvars, scvars, sgvars, cpvars, fnvars,
                logvars, rtvars>>

fnOthers == <<hvars, rmvars, mcvars, scvars, sgvars, cpvars, encvars,
               logvars, rtvars>>

logOthers == <<hvars, rmvars, mcvars, scvars, sgvars, cpvars, encvars,
                fnvars, rtvars>>

rtOthers == <<hvars, rmvars, mcvars, scvars, sgvars, cpvars, encvars,
               fnvars, logvars>>

-----------------------------------------------------------------------------
(* Bounds of the polygon inputs                                            *)

\* largest number of vertices of a freely chosen polygon
MaxFreeVerts == 4
\* point indices of freely chosen polygons are 0..MaxFreePoint
MaxFreePoint == 2
\* isBridge of a freely chosen polygon holds of at most MaxFreeBridges point pairs
MaxFreeBridges == 2
\* largest number of holes of a bridged polygon
MaxHoles == 2
\* rings of a bridged polygon have MinRingSize..MaxRingSize vertices
MaxRingSize == 4

MinRingSize == 3

-----------------------------------------------------------------------------
(* Generic helpers                                                         *)

Min(a, b) == IF a < b THEN a ELSE b

Max(a, b) == IF a > b THEN a ELSE b

Range(s) == {s[i] : i \in 1..Len(s)}

RECURSIVE SumOver(_, _)
SumOver(f, S) ==
    IF S = {} THEN 0
    ELSE LET x == CHOOSE y \in S : TRUE IN f[x] + SumOver(f, S \ {x})

\* how often e occurs in the sequence s
Count(s, e) == Cardinality({i \in 1..Len(s) : s[i] = e})

\* some a occurs in s before some b
Before(s, a, b) == \E i, j \in 1..Len(s) : i < j /\ s[i] = a /\ s[j] = b

\* the sequence s rotated left by k places
Rotate(s, k) ==
    [i \in 1..Len(s) |-> s[((i - 1 + k) % Len(s)) + 1]]

-----------------------------------------------------------------------------
(* HoleConverter.cpp                                                       *)

\* std::pair<int64_t,int64_t>::operator<
PairLess(a, b) == a[1] < b[1] \/ (a[1] = b[1] /\ a[2] < b[2])

\* treat (x,y) as (y,x)
SwapIfGreater(e) == IF e[1] > e[2] THEN <<e[2], e[1]>> ELSE e

\* mutant: the comparator forgets to canonicalise the two edges
undirectedLessThan_directed(a, b) == PairLess(a, b)

undirectedLessThan(a, b) == PairLess(SwapIfGreater(a), SwapIfGreater(b))

\* std::set equivalence under the comparator
EquivalentEdges(a, b) == ~undirectedLessThan(a, b) /\ ~undirectedLessThan(b, a)

\* UndirectedEdgeSet::emplace: the element is inserted unless an equivalent
\* one is already stored; the stored element keeps its own direction
emplace(bridges, e) ==
    IF \E b \in bridges : EquivalentEdges(b, e) THEN bridges ELSE bridges \cup {e}

EDGE_START == "EDGE_START"

EDGE_END == "EDGE_END"

checkBridgeEnding(endCheck, bridges, startVertexToEndPointEdge) ==
    IF endCheck = EDGE_START
    THEN \E bridge \in bridges : startVertexToEndPointEdge[2] = bridge[1]
    ELSE \E bridge \in bridges : startVertexToEndPointEdge[2] = bridge[2]

\* info[ringIdx].push_back(v).  info is a TLA+ sequence, so ring r of the code
\* is info[r + 1].  ringIdx is a size_t: the value -1 stands for SIZE_MAX, the
\* result of decrementing 0 (and SIZE_MAX + 1 wraps to 0 again).  An index
\* outside the vector is undefined behaviour: ub records it and the store is
\* not seen in info.
RingInRange(st) == st.ringIdx >= 0 /\ st.ringIdx < Len(st.info)

pushToRing(st, v) ==
    IF RingInRange(st)
    THEN [st EXCEPT !.info[st.ringIdx + 1] = Append(@, v)]
    ELSE [st EXCEPT !.ub = TRUE]

\* info.emplace_back(); ringIdx++
pushStack(st) ==
    [st EXCEPT !.info = Append(@, <<>>), !.ringIdx = @ + 1]

\* ringIdx--
popStack(st) == [st EXCEPT !.ringIdx = @ - 1]

\* a variant that drops the vertex of an edge that leaves a hole
walkEdge_dropOnPop(bridges, st, e) ==
    IF checkBridgeEnding(EDGE_START, bridges, e)
    THEN pushStack(pushToRing(st, e[1]))
    ELSE IF checkBridgeEnding(EDGE_END, bridges, e)
         THEN popStack(st)
         ELSE pushToRing(st, e[1])

\* one iteration of the loop of detectFaceAndHoles
walkEdge(bridges, st, e) ==
    IF checkBridgeEnding(EDGE_START, bridges, e)
    THEN pushStack(pushToRing(st, e[1]))
    ELSE IF checkBridgeEnding(EDGE_END, bridges, e)
         THEN popStack(pushToRing(st, e[1]))
         ELSE pushToRing(st, e[1])

RECURSIVE walkEdges(_, _, _, _)
walkEdges(bridges, edges, i, st) ==
    IF i > Len(edges) THEN st
    ELSE walkEdges(bridges, edges, i + 1, walkEdge(bridges, st, edges[i]))

detectFaceAndHoles(bridges, startVertexToEndPointEdges) ==
    walkEdges(bridges, startVertexToEndPointEdges, 1,
              [info |-> << <<>> >>, ringIdx |-> 0, ub |-> FALSE])

\* the EdgeSource interface
getEdges(source) == source.edges

getPointIndex(source, vertexIndex) == source.pointOf[vertexIndex]

isBridge(source, pointIndexA, pointIndexB) ==
    {pointIndexA, pointIndexB} \in source.bridge

\* first loop of extractHoles: split the edges into the bridge set and the
\* (start vertex, end point) edges
RECURSIVE collectEdges(_, _, _, _)
collectEdges(source, allEdges, i, acc) ==
    IF i > Len(allEdges) THEN acc
    ELSE LET vertexIndexA == allEdges[i][1]
             vertexIndexB == allEdges[i][2]
             pointIndexA == getPointIndex(source, vertexIndexA)
             pointIndexB == getPointIndex(source, vertexIndexB)
         IN collectEdges(source, allEdges, i + 1,
                IF isBridge(source, pointIndexA, pointIndexB)
                THEN [acc EXCEPT !.bridges = emplace(@, <<pointIndexA, pointIndexB>>)]
                ELSE [acc EXCEPT !.edges = Append(@, <<vertexIndexA, pointIndexB>>)])

collected(source) ==
    collectEdges(source, getEdges(source), 1, [bridges |-> {}, edges |-> <<>>])

\* mutant: the ring lists the end point of every edge
noBridgeRing_endPoint(startVertexToEndPointEdges) ==
    [i \in 1..Len(startVertexToEndPointEdges) |-> startVertexToEndPointEdges[i][2]]

\* the else branch of extractHoles: one ring of all start vertices
noBridgeRing(startVertexToEndPointEdges) ==
    [i \in 1..Len(startVertexToEndPointEdges) |-> startVertexToEndPointEdges[i][1]]

extractHoles(source) ==
    LET c == collected(source)
    IN IF c.bridges # {}
       THEN detectFaceAndHoles(c.bridges, c.edges)
       ELSE [info |-> << noBridgeRing(c.edges) >>, ringIdx |-> 0, ub |-> FALSE]

\* What a caller of extractHoles can observe.  Without undefined behaviour
\* the rings are returned.  After an out-of-range ring access the build may
\* crash, or the stray store may go unnoticed and the rings be returned.
extractHolesOutcomes(source) ==
    LET r == extractHoles(source)
    IN IF r.ub
       THEN {[status |-> "crashed", rings |-> <<>>, ub |-> TRUE],
             [status |-> "returned", rings |-> r.info, ub |-> TRUE]}
       ELSE {[status |-> "returned", rings |-> r.info, ub |-> FALSE]}

-----------------------------------------------------------------------------
(* Edge sources: GeoFaceHoleSource over a closed polygon                   *)

\* GeoFaceHoleSource::getEdges: iterateEdgesByVertex of a closed face with
\* vertices 0..n-1 yields (0,1), (1,2), ..., (n-1,0)
closedEdges(n) == [i \in 1..n |-> <<i - 1, i % n>>]

\* a face whose vertex i refers to point pts[i + 1]
faceSource(pts, bridge) ==
    [edges   |-> closedEdges(Len(pts)),
     pointOf |-> [v \in 0..(Len(pts) - 1) |-> pts[v + 1]],
     bridge  |-> bridge]

\* Bridged polygons: ring 0 is the outer ring, ring c >= 1 is hole c; every
\* ring has d.n vertices; hole c hangs on vertex d.holes[c].at of ring
\* d.holes[c].parent < c and is entered and left at its own vertex 0.
ringPoint(d, r, k) == r * d.n + k

ringOfPoint(d, p) == p \div d.n

\* the traversal of ring r from its vertex k on; c = 0 emits the vertex, c >= 1
\* looks for hole c hanging on it
RECURSIVE bridgedTraversal(_, _, _, _)
bridgedTraversal(d, r, k, c) ==
    IF k >= d.n THEN <<>>
    ELSE IF c = 0 THEN <<ringPoint(d, r, k)>> \o bridgedTraversal(d, r, k, 1)
    ELSE IF c > Len(d.holes) THEN bridgedTraversal(d, r, k + 1, 0)
    ELSE IF d.holes[c].parent = r /\ d.holes[c].at = k
         THEN bridgedTraversal(d, c, 0, 0)
              \o <<ringPoint(d, c, 0), ringPoint(d, r, k)>>
              \o bridgedTraversal(d, r, k, c + 1)
         ELSE bridgedTraversal(d, r, k, c + 1)

bridgedPoints(d) == Rotate(bridgedTraversal(d, 0, 0, 0), d.start)

bridgedBridges(d) ==
    {{ringPoint(d, d.holes[c].parent, d.holes[c].at), ringPoint(d, c, 0)} :
        c \in 1..Len(d.holes)}

bridgedSource(d) == faceSource(bridgedPoints(d), bridgedBridges(d))

HoleSeqs(n, count) ==
    {h \in [1..count -> [parent : 0..(count - 1), at : 0..(n - 1)]] :
        \A c \in 1..count : h[c].parent < c}

BridgedPolys ==
    {d \in UNION {[kind : {"bridged"}, n : {n}, holes : HoleSeqs(n, count),
                   start : 0..(n * (count + 1) + 2 * count - 1)] :
                  n \in MinRingSize..MaxRingSize, count \in 0..MaxHoles} : TRUE}

FreePointSeqs ==
    UNION {[1..n -> 0..MaxFreePoint] : n \in 0..MaxFreeVerts}

PointPairs == {{a, b} : a, b \in 0..MaxFreePoint}

FreeBridgeSets == {b \in SUBSET PointPairs : Cardinality(b) <= MaxFreeBridges}

FreePolys ==
    [kind : {"free"}, pts : FreePointSeqs, bridge : FreeBridgeSets]

sourceOf(d) ==
    IF d.kind = "bridged" THEN bridgedSource(d) ELSE faceSource(d.pts, d.bridge)


-----------------------------------------------------------------------------
(* Bounds of the getResolveMap runs                                        *)

\* threads calling getResolveMap
MaxRMThreads == 2
\* package paths 1..MaxPaths
MaxPaths == 2
\* calls of getResolveMap, in total
MaxRMCalls == 3
\* modifications of package files on disk, in total
MaxTouches == 1
\* entries the Resolve-Map Cache keeps before it evicts the least recently used
RMCapacity == 1
\* Assign nodes of the host's node graph
MaxNodes == 3

RMThreads == 1..MaxRMThreads

Paths == 1..MaxPaths

AssignNodes == 1..MaxNodes

NoThread == 0

NoEntry == [map |-> <<0, 0>>, mtime |-> -1]

NoLookup == [map |-> <<0, 0>>, status |-> "NONE"]

NoCall == [arg |-> 0, map |-> <<0, 0>>, status |-> "NONE", trace |-> <<>>, forced |-> {}]

\* SOPAssign::getRPK of node n
nodeRPK(n) == (n % MaxPaths) + 1

-----------------------------------------------------------------------------
(* ResolveMapCache::get (spec.md 4.2, 3 "Resolve-Map Cache Entry",         *)
(* "LRU Cache")                                                            *)

\* the entry of path p is present and was built from the file as it is now
cacheValid(cache, fileTime, p) ==
    cache[p] # NoEntry /\ cache[p].mtime = fileTime[p]

\* the recency list with p moved to the front
lruTouch(lru, p) == <<p>> \o SelectSeq(lru, LAMBDA q : q # p)

\* the recency list after inserting p: least recently used entries beyond the
\* capacity are dropped
lruInsert(lru, p) == SubSeq(lruTouch(lru, p), 1, Min(Len(lruTouch(lru, p)), RMCapacity))

\* the resolve map built from the package file of p as it is on disk
buildResolveMap(fileTime, p) == <<p, fileTime[p]>>

cacheInsert(cache, lru, fileTime, p) ==
    [q \in Paths |->
        IF q = p THEN [map |-> buildResolveMap(fileTime, p), mtime |-> fileTime[p]]
        ELSE IF q \in Range(lruInsert(lru, p)) THEN cache[q]
        ELSE NoEntry]

-----------------------------------------------------------------------------
(* PRTContext::getResolveMap                                               *)

\* mutant: the lock does not exclude other threads
mutexAvailable_always(mutex) == TRUE

\* std::lock_guard<std::mutex> can take the mutex
mutexAvailable(mutex) == mutex = NoThread

\* mutant: the recook is scheduled on a cache hit as well
missSideEffects_always(status) == TRUE

\* if (lookupResult.second == ResolveMapCache::CacheStatus::MISS)
missSideEffects(status) == status = "MISS"

\* the statement that follows taking the lock: mResolveMapCache->get(...)
afterLock == "lookup"

\* mutant: the flush and the recook are left out
afterMiss_return == "return"

\* the statement that follows a MISS of get: mPRTCache->flushAll()
afterMiss == "flush"

\* the statement that follows flushAll: scheduleRecook, unless PLD_TEST_EXPORTS
afterFlush(build) == IF build.test THEN "return" ELSE "recook"

\* scheduleRecook: the Assign nodes whose rpk is the path get forceRecook, if
\* the host has a director
scheduleRecook(build, rpk) ==
    IF build.director THEN {n \in AssignNodes : nodeRPK(n) = rpk} ELSE {}

RMUnused ==
    /\ rmBuild = [test |-> FALSE, director |-> FALSE]
    /\ rmMutex = NoThread
    /\ rmPc = [t \in RMThreads |-> "idle"]
    /\ rmArg = [t \in RMThreads |-> 0]
    /\ rmCalls = 0
    /\ rmLookup = [t \in RMThreads |-> NoLookup]
    /\ rmTrace = [t \in RMThreads |-> <<>>]
    /\ rmForced = [t \in RMThreads |-> {}]
    /\ rmDone = NoCall
    /\ rmCache = [p \in Paths |-> NoEntry]
    /\ rmLru = <<>>
    /\ rmFileTime = [p \in Paths |-> 0]
    /\ rmReleased = <<>>

-----------------------------------------------------------------------------
(* Bounds of the ModelConverter runs                                       *)

\* generate worker threads
MaxWorkers == 2
\* initial shapes of the cook, handed to the workers one by one
MaxShapes == 2
\* faces with holes in the geometry of one add call
MaxHoleFaces == 1
\* buildHoles calls
MaxBuildHoles == 2

Workers == 1..MaxWorkers

ShapeIds == 1..MaxShapes

\* an add call either has no face with holes or MaxHoleFaces of them
HoleFaceCounts == {0, MaxHoleFaces}

NoJob == [id |-> 0, holes |-> 0]

NoWrite == [id |-> 0, step |-> "none"]

\* the prt::Status values generateError is called with
ErrorStatuses == {"STATUS_UNSPECIFIED_ERROR", "STATUS_OUT_OF_MEM"}

EmptyDetail == [points |-> 0, prims |-> 0, normals |-> 0, uvs |-> 0, groups |-> 0, attrs |-> 0]

NoError == [n |-> 0, idx |-> 0, status |-> "STATUS_OK", ret |-> "STATUS_OK", detail |-> EmptyDetail]

-----------------------------------------------------------------------------
(* ModelConverter.cpp                                                      *)

\* mutant: add does not wait for the mutex
detailMutexAvailable_always(mutex) == TRUE

\* std::lock_guard<std::mutex> guard(mDetailMutex) can take the mutex
detailMutexAvailable(mutex) == mutex = NoThread

\* the creation steps of createPrimitives and add, in program order
AddSteps == <<"points", "prims", "normals", "uvs", "holeGroups", "primGroup", "attrs">>

nextAddStep(step) ==
    CASE step = "points"     -> "prims"
      [] step = "prims"      -> "normals"
      [] step = "normals"    -> "uvs"
      [] step = "uvs"        -> "holeGroups"
      [] step = "holeGroups" -> "primGroup"
      [] step = "primGroup"  -> "attrs"

\* what one creation step adds to the detail
detailAfter(detail, step) ==
    CASE step = "points"     -> [detail EXCEPT !.points = @ + 1]
      [] step = "prims"      -> [detail EXCEPT !.prims = @ + 1]
      [] step = "normals"    -> [detail EXCEPT !.normals = @ + 1]
      [] step = "uvs"        -> [detail EXCEPT !.uvs = @ + 1]
      [] step = "holeGroups" -> detail
      [] step = "primGroup"  -> [detail EXCEPT !.groups = @ + 1]
      [] step = "attrs"      -> [detail EXCEPT !.attrs = @ + 1]

\* createPrimitives: one temporary group per face with holeCounts[hi] > 0 is
\* pushed onto holeGroups
RECURSIVE appendHoleGroups(_, _, _, _, _)
appendHoleGroups(groups, id, n, w, mutex) ==
    IF n = 0 THEN groups
    ELSE appendHoleGroups(Append(groups, [id |-> id, by |-> w, lock |-> mutex, merges |-> 0]),
                          id, n - 1, w, mutex)

\* mutant: buildHoles empties the list after merging
buildHolesGroups_clear(groups) == <<>>

\* buildHoles: mDetail->buildHoles is applied to every group of mHoleGroups;
\* the list itself is left as it is
buildHolesGroups(groups) ==
    [i \in 1..Len(groups) |-> [groups[i] EXCEPT !.merges = @ + 1]]

\* mShapeAttributeBuilders before any callback: no entry, size() = 0
NoBuilders == [ids |-> {}, size |-> 0]

\* getBuilder, amb.emplace(shapeID, ...): the outcomes of the insertion, each
\* with the entries of the map, its size() and whether the process died.
\* An insertion that ran concurrently with another access to the std::map is
\* a data race on the red-black tree: the entry may or may not be linked in,
\* the node count may or may not be incremented, or the insertion follows a
\* broken link and the process dies inside std::map::emplace.
emplaceOutcomes(builders, id, raced) ==
    IF raced
    THEN {[ids |-> s, size |-> n, crashed |-> FALSE] :
              s \in {builders.ids, builders.ids \cup {id}},
              n \in {builders.size, builders.size + 1}}
         \cup {[ids |-> builders.ids, size |-> builders.size, crashed |-> TRUE]}
    ELSE {[ids |-> builders.ids \cup {id}, size |-> builders.size + 1,
           crashed |-> FALSE]}

\* getBuilder, amb.find(shapeID): whether an entry is found. A lookup that
\* runs on a tree another thread has been relinking may miss an entry that is
\* there.
findOutcomes(builders, id, raced) ==
    IF raced THEN {id \in builders.ids, FALSE} ELSE {id \in builders.ids}

\* mutant: the status is stored in every slot
generateErrorStatuses_all(statuses, isIndex, status) ==
    [i \in DOMAIN statuses |-> status]

\* generateError: mStatuses[isIndex] = status (slots are numbered from 1 here,
\* slot isIndex + 1 of the model is mStatuses[isIndex])
generateErrorStatuses(statuses, isIndex, status) ==
    [statuses EXCEPT ![isIndex + 1] = status]

\* generateError: return prt::STATUS_OK
generateErrorReturn == "STATUS_OK"

\* two accesses to the builders conflict when at least one of them writes
conflicting(a, b) == a # "none" /\ b # "none" /\ (a = "W" \/ b = "W")

\* worker w starting an access of kind a races with an access in progress
racesWith(acc, w, a) == \E v \in DOMAIN acc : v # w /\ conflicting(acc[v], a)

MCUnused ==
    /\ mcEmit = FALSE
    /\ mcMutex = NoThread
    /\ mcPc = [w \in Workers |-> "start"]
    /\ mcJob = [w \in Workers |-> NoJob]
    /\ mcNext = 0
    /\ mcAcc = [w \in Workers |-> "none"]
    /\ mcBuilders = NoBuilders
    /\ mcRaced = FALSE
    /\ mcDetail = EmptyDetail
    /\ mcLast = NoWrite
    /\ mcHoleGroups = <<>>
    /\ mcAdded = [i \in ShapeIds |-> -1]
    /\ mcBuilt = 0
    /\ mcStatuses = [i \in ShapeIds |-> "STATUS_OK"]
    /\ mcErr = NoError

-----------------------------------------------------------------------------
(* Bounds of the ShapeConverter runs                                       *)

\* primitives of the incoming detail
MaxSCPrims == 2
\* points of the incoming detail are 0..MaxSCPoint
MaxSCPoint == 2
\* polygons of a polygon soup
MaxSoupPolys == 2
\* UV sets looked for on the incoming detail ("uv", "uv1", ...)
MaxSCUV == 2

SCUnused ==
    /\ scIn = [prims |-> <<>>]
    /\ scPc = "none"
    /\ scShapes = <<>>
    /\ scOut = <<>>

SGUnused ==
    /\ sgIn = [geometries |-> <<>>, materials |-> <<>>]
    /\ sgPc = "none"
    /\ sgOut = <<>>

CPUnused ==
    /\ cpIn = [counts |-> <<>>]
    /\ cpPc = "none"
    /\ cpAt = [uvSet |-> 0, fi |-> 0, uvi |-> 0]
    /\ cpOut = <<>>

EncUnused ==
    /\ encIn = [emitAttrs |-> FALSE]
    /\ encPc = "none"
    /\ encLeaf = <<>>
    /\ encLog = <<>>

FNUnused ==
    /\ fnIn = [name |-> <<>>]
    /\ fnPc = "none"
    /\ fnPath = [parent |-> "", name |-> <<>>]
    /\ fnSuf = [stem |-> <<>>, suf |-> 0]

LogUnused ==
    /\ logLevel = 0
    /\ logScopes = <<>>
    /\ logEntered = <<>>
    /\ logHist = [first |-> 0, exit |-> [entered |-> 0, restored |-> 0, changed |-> FALSE, outermost |-> FALSE,
                                        original |-> 0, any |-> FALSE]]

RTUnused ==
    /\ rtIn = [prim |-> <<>>]
    /\ rtPc = "none"
    /\ rtShape = <<>>
    /\ rtOut = <<>>

MoreUnused == LogUnused /\ RTUnused

OthersUnused == SGUnused /\ CPUnused /\ EncUnused /\ FNUnused /\ MoreUnused

-----------------------------------------------------------------------------
(* The incoming detail of ShapeConverter::get                              *)

Reverse(s) == [i \in 1..Len(s) |-> s[Len(s) + 1 - i]]

\* n, n + 1, ..., n + count - 1  (std::iota)
Iota(n, count) == [i \in 1..count |-> n + i - 1]

\* point sequences of plain polygons without holes
SCPointSeqs ==
    {s \in [1..MinRingSize -> 0..MaxSCPoint] :
        \A i, j \in 1..MinRingSize : i # j => s[i] # s[j]}

\* GA_PRIMPOLY faces: plain polygons and polygons with one bridged hole
SCFaces ==
    {[kind |-> "free", pts |-> s, bridge |-> {}] : s \in SCPointSeqs}
        \cup {d \in BridgedPolys : d.n = MinRingSize /\ Len(d.holes) <= 1}

\* a polygon soup of k polygons over the points of base
soupPolys(base, k) == [j \in 1..k |-> Rotate(base, j - 1)]

SCPrims ==
    {[type |-> "poly", face |-> f] : f \in SCFaces}
        \cup {[type |-> "soup", polys |-> soupPolys(b, k)] :
                 b \in SCPointSeqs, k \in 1..MaxSoupPolys}
        \cup {[type |-> "other"]}

\* the primitives that may follow the first one
SCMorePrims ==
    {[type |-> "poly", face |-> [kind |-> "free", pts |-> Iota(0, MinRingSize), bridge |-> {}]],
     [type |-> "soup", polys |-> soupPolys(Reverse(Iota(0, MinRingSize)), MaxSoupPolys)],
     [type |-> "other"]}

SCPrimSeqs ==
    {<<p>> \o rest : p \in SCPrims,
                     rest \in UNION {[1..n -> SCMorePrims] : n \in 0..(MaxSCPrims - 1)}}

\* which of the UV attributes "uv", "uv1", ... exist on the detail
SCUVChoices == {{}, {0}, {MaxSCUV - 1}, 0..(MaxSCUV - 1)}

\* the seed parameter of the Assign node
NodeSeed == 42

\* the value of the random-seed primitive attribute on primitive i, if the
\* detail has one
seedAttrValue(i) == NodeSeed + i

\* the primitive classifier value of primitive i
classOf(in, i) ==
    CASE in.cls = "own"   -> i
      [] in.cls = "one"   -> 1
      [] in.cls = "pairs" -> (i + 1) \div 2

\* PrimitivePartition: classifier value -> its primitives, in detail order
partitionKeys(in) == {classOf(in, i) : i \in 1..Len(in.prims)}

partitionPrims(in, key) ==
    SelectSeq(Iota(1, Len(in.prims)), LAMBDA i : classOf(in, i) = key)

RECURSIVE sortedKeys(_)
sortedKeys(keys) ==
    IF keys = {} THEN <<>>
    ELSE LET k == CHOOSE x \in keys : \A y \in keys : x <= y
         IN <<k>> \o sortedKeys(keys \ {k})

\* the position of point p (coords of the detail)
pointPos(p) == <<p, 2 * p + 1, p * p>>

\* the value of UV attribute u on a vertex: its x and y component
uvAt(u, vtx) == << [c |-> "x", set |-> u, vtx |-> vtx], [c |-> "y", set |-> u, vtx |-> vtx] >>

-----------------------------------------------------------------------------
(* ShapeConverter.cpp                                                      *)

\* std::numeric_limits<uint32_t>::max(), the delimiter of the holes array
HoleSentinel == -1

\* ConversionHelper(coords, uvHandles)
newConversionHelper ==
    [indices |-> <<>>, faceCounts |-> <<>>, holes |-> <<>>,
     uvSets |-> [u \in 0..(MaxSCUV - 1) |-> [uvs |-> <<>>, idx |-> <<>>]]]

\* the rings extractHoles returns for a face
ringsOf(face) == extractHoles(sourceOf(face)).info

\* mutant: the ring is emitted in the order of the host vertices
ringIndices_forward(face, ring) ==
    [k \in 1..Len(ring) |-> getPointIndex(sourceOf(face), ring[k])]

\* std::for_each(faceOrHole.rbegin(), faceOrHole.rend(), ... getPointIndex(o))
ringIndices(face, ring) ==
    Reverse([k \in 1..Len(ring) |-> getPointIndex(sourceOf(face), ring[k])])

\* convertPolygon(GA_Primitive), first loop: one face per ring
RECURSIVE polyRings(_, _, _, _)
polyRings(ch, face, rings, r) ==
    IF r > Len(rings) THEN ch
    ELSE polyRings([ch EXCEPT !.holes = Append(@, Len(ch.faceCounts)),
                              !.faceCounts = Append(@, Len(rings[r])),
                              !.indices = @ \o ringIndices(face, rings[r])],
                   face, rings, r + 1)

\* the UV values of the vertices of a ring, x and y of each in ring order
RECURSIVE ringUVs(_, _, _, _)
ringUVs(u, i, ring, k) ==
    IF k > Len(ring) THEN <<>>
    ELSE uvAt(u, <<i, 0, ring[k]>>) \o ringUVs(u, i, ring, k + 1)

\* convertPolygon(GA_Primitive), the lambda of forEachUVSet for one UV set
RECURSIVE polyUVs(_, _, _, _, _)
polyUVs(uvSet, u, i, rings, r) ==
    IF r > Len(rings) THEN uvSet
    ELSE polyUVs([uvs |-> uvSet.uvs \o ringUVs(u, i, rings[r], 1),
                  idx |-> uvSet.idx \o Reverse(Iota(Len(uvSet.idx), Len(rings[r])))],
                 u, i, rings, r + 1)

\* a variant that leaves the holes of a primitive undelimited
closeHoles_open(ch) == ch

\* ch.holes.push_back(std::numeric_limits<uint32_t>::max())
closeHoles(ch) == [ch EXCEPT !.holes = Append(@, HoleSentinel)]

\* convertPolygon(ch, GA_Primitive, uvHandles) for primitive i
convertPolygon(ch, in, i) ==
    LET face == in.prims[i].face
        rings == ringsOf(face)
        c1 == polyRings(ch, face, rings, 1)
        c2 == closeHoles(c1)
    IN [c2 EXCEPT !.uvSets = [u \in DOMAIN @ |->
                                 IF u \in in.uvValid
                                 THEN polyUVs(c2.uvSets[u], u, i, rings, 1)
                                 ELSE c2.uvSets[u]]]

\* the UVs of a soup polygon: vertices n-1 down to 0, one new index each
RECURSIVE soupUVs(_, _, _, _, _)
soupUVs(uvSet, u, i, j, v) ==
    IF v < 0 THEN uvSet
    ELSE soupUVs([uvs |-> uvSet.uvs \o uvAt(u, <<i, j, v>>),
                  idx |-> Append(uvSet.idx, Len(uvSet.idx))],
                 u, i, j, v - 1)

\* a variant that reads no UVs from a polygon of a soup
convertSoupPolygon_noUVs(ch, in, i, j) ==
    LET pts == in.prims[i].polys[j]
    IN [ch EXCEPT !.faceCounts = Append(@, Len(pts)),
                  !.indices = @ \o Reverse(pts)]

\* convertPolygon(ch, PolygonIterator, uvHandles) for polygon j of soup i
convertSoupPolygon(ch, in, i, j) ==
    LET pts == in.prims[i].polys[j]
    IN [ch EXCEPT !.faceCounts = Append(@, Len(pts)),
                  !.indices = @ \o Reverse(pts),
                  !.uvSets = [u \in DOMAIN @ |->
                                 IF u \in in.uvValid
                                 THEN soupUVs(ch.uvSets[u], u, i, j, Len(pts) - 1)
                                 ELSE ch.uvSets[u]]]

RECURSIVE convertSoup(_, _, _, _)
convertSoup(ch, in, i, j) ==
    IF j > Len(in.prims[i].polys) THEN ch
    ELSE convertSoup(convertSoupPolygon(ch, in, i, j), in, i, j + 1)

\* a variant in which an unsupported primitive leaves an empty face
convertPrim_emptyFace(ch, in, i) ==
    CASE in.prims[i].type = "poly" -> convertPolygon(ch, in, i)
      [] in.prims[i].type = "soup" -> convertSoup(ch, in, i, 1)
      [] OTHER -> [ch EXCEPT !.faceCounts = Append(@, 0)]

\* ShapeConverter::get, the switch over the primitive type
convertPrim(ch, in, i) ==
    CASE in.prims[i].type = "poly" -> convertPolygon(ch, in, i)
      [] in.prims[i].type = "soup" -> convertSoup(ch, in, i, 1)
      [] OTHER -> ch

\* ShapeConverter::get, the loop over the primitives of a partition
RECURSIVE convertPrims(_, _, _, _)
convertPrims(ch, in, prims, k) ==
    IF k > Len(prims) THEN ch
    ELSE convertPrims(convertPrim(ch, in, prims[k]), in, prims, k + 1)

\* getCentroid: the sum of the positions of all indices and their number
\* (the centroid is sum / n, computed in double precision)
RECURSIVE coordSum(_, _, _)
coordSum(indices, axis, k) ==
    IF k > Len(indices) THEN 0
    ELSE pointPos(indices[k])[axis] + coordSum(indices, axis, k + 1)

getCentroid(ch) ==
    [sum |-> [axis \in 1..3 |-> coordSum(ch.indices, axis, 1)], n |-> Len(ch.indices)]

-----------------------------------------------------------------------------
(* size_t arithmetic.  The build has a 64-bit size_t; a size_t value is    *)
(* held as its eight bytes, least significant first, so that sums, shifts  *)
(* and products wrap at 2^64 as they do in the code.                       *)

WordBytes == 1..8

\* the size_t with value n, for 0 <= n < 2^31
toWord(n) ==
    <<n % 256, (n \div 256) % 256, (n \div 65536) % 256, n \div (2 ^ 24), 0, 0, 0, 0>>

byteAt(a, i) == IF i \in WordBytes THEN a[i] ELSE 0

RECURSIVE bitXor(_, _)
bitXor(a, b) ==
    IF a = 0 /\ b = 0 THEN 0
    ELSE (((a % 2) + (b % 2)) % 2) + 2 * bitXor(a \div 2, b \div 2)

\* a ^ b
wordXor(a, b) ==
    <<bitXor(a[1], b[1]), bitXor(a[2], b[2]), bitXor(a[3], b[3]), bitXor(a[4], b[4]),
      bitXor(a[5], b[5]), bitXor(a[6], b[6]), bitXor(a[7], b[7]), bitXor(a[8], b[8])>>

RECURSIVE addBytes(_, _, _, _)
addBytes(a, b, i, carry) ==
    IF i > 8 THEN <<>>
    ELSE LET sum == a[i] + b[i] + carry
         IN <<sum % 256>> \o addBytes(a, b, i + 1, sum \div 256)

\* a + b, modulo 2^64
wordAdd(a, b) == addBytes(a, b, 1, 0)

\* byte i of a << (8 * q + r)
shlByte(a, q, r, i) ==
    ((byteAt(a, i - q) * (2 ^ r)) % 256) + (byteAt(a, i - q - 1) \div (2 ^ (8 - r)))

\* a << n, modulo 2^64
wordShl(a, n) ==
    LET q == n \div 8
        r == n % 8
    IN <<shlByte(a, q, r, 1), shlByte(a, q, r, 2), shlByte(a, q, r, 3), shlByte(a, q, r, 4),
         shlByte(a, q, r, 5), shlByte(a, q, r, 6), shlByte(a, q, r, 7), shlByte(a, q, r, 8)>>

\* byte i of a >> (8 * q + r)
shrByte(a, q, r, i) ==
    (byteAt(a, i + q) \div (2 ^ r)) + ((byteAt(a, i + q + 1) % (2 ^ r)) * (2 ^ (8 - r)))

\* a >> n
wordShr(a, n) ==
    LET q == n \div 8
        r == n % 8
    IN <<shrByte(a, q, r, 1), shrByte(a, q, r, 2), shrByte(a, q, r, 3), shrByte(a, q, r, 4),
         shrByte(a, q, r, 5), shrByte(a, q, r, 6), shrByte(a, q, r, 7), shrByte(a, q, r, 8)>>

RECURSIVE columnSum(_, _, _, _)
columnSum(a, b, k, i) ==
    IF i > k THEN 0 ELSE a[i] * b[k + 1 - i] + columnSum(a, b, k, i + 1)

RECURSIVE mulBytes(_, _, _, _)
mulBytes(a, b, k, carry) ==
    IF k > 8 THEN <<>>
    ELSE LET sum == columnSum(a, b, k, 1) + carry
         IN <<sum % 256>> \o mulBytes(a, b, k + 1, sum \div 256)

\* a * b, modulo 2^64
wordMul(a, b) == mulBytes(a, b, 1, 0)

-----------------------------------------------------------------------------
(* std::hash<double>.  Its value is implementation-defined; the build uses *)
(* libstdc++ on x86-64, where it is 0 for 0.0 and otherwise _Hash_bytes    *)
(* over the eight bytes of the IEEE 754 binary64 value, seed 0xc70f6907.   *)

\* the largest e with d * 2^e <= n, for n >= d >= 1
RECURSIVE log2Floor(_, _)
log2Floor(n, d) == IF 2 * d > n THEN 0 ELSE 1 + log2Floor(n, 2 * d)

\* the smallest k with n * 2^k >= d, for 1 <= n
RECURSIVE log2Ceil(_, _)
log2Ceil(n, d) == IF n >= d THEN 0 ELSE 1 + log2Ceil(2 * n, d)

\* long division in base 16: k further quotient digits of r / d, most
\* significant first, and the remainder left, for 0 <= r < d < 2^27
RECURSIVE quotientDigits(_, _, _)
quotientDigits(r, d, k) ==
    IF k = 0 THEN [digits |-> <<>>, rem |-> r]
    ELSE LET rest == quotientDigits((16 * r) % d, d, k - 1)
         IN [digits |-> <<(16 * r) \div d>> \o rest.digits, rem |-> rest.rem]

\* byte i of the size_t whose 16 hexadecimal digits are given, most
\* significant first
byteOfDigits(digits, i) == 16 * digits[2 * (8 - i) + 1] + digits[2 * (8 - i) + 2]

wordOfDigits(digits) ==
    <<byteOfDigits(digits, 1), byteOfDigits(digits, 2), byteOfDigits(digits, 3),
      byteOfDigits(digits, 4), byteOfDigits(digits, 5), byteOfDigits(digits, 6),
      byteOfDigits(digits, 7), byteOfDigits(digits, 8)>>

\* the quiet NaN that 0.0 / 0.0 yields on x86-64: fff8000000000000
DefaultNaN == <<0, 0, 0, 0, 0, 0, 248, 255>>

\* +infinity: 7ff0000000000000
PlusInfinity == <<0, 0, 0, 0, 0, 0, 240, 127>>

\* the bytes of the double (double)num / (double)den for integers
\* 0 <= num, den < 2^27: sign 0, the exponent biased by 1023 in 11 bits, and
\* the 52 fraction bits of the quotient, rounded to nearest, ties to even
doubleBits(num, den) ==
    IF den = 0 THEN (IF num = 0 THEN DefaultNaN ELSE PlusInfinity)
    ELSE IF num = 0 THEN toWord(0)
    ELSE LET up == IF num >= den THEN log2Floor(num, den) ELSE 0
             down == IF num >= den THEN 0 ELSE log2Ceil(num, den)
             n == num * (2 ^ down)
             d == den * (2 ^ up)
             biased == 1023 + up - down
             q == quotientDigits(n - d, d, 13)
             truncated == wordOfDigits(<<biased \div 256, (biased \div 16) % 16, biased % 16>>
                                           \o q.digits)
             roundUp == \/ 2 * q.rem > d
                        \/ 2 * q.rem = d /\ q.digits[13] % 2 = 1
         IN IF roundUp THEN wordAdd(truncated, toWord(1)) ELSE truncated

\* libstdc++ _Hash_bytes: mul = (0xc6a4a793 << 32) + 0x5bd1e995
HashMul == <<149, 233, 209, 91, 147, 167, 164, 198>>

\* libstdc++ std::hash: the seed 0xc70f6907
HashSeed == <<7, 105, 15, 199, 0, 0, 0, 0>>

\* libstdc++ _Hash_bytes: shift_mix(v) = v ^ (v >> 47)
shiftMix(v) == wordXor(v, wordShr(v, 47))

\* libstdc++ _Hash_bytes(ptr, 8, seed) over the eight bytes data
hashBytes(data) ==
    LET start == wordXor(HashSeed, wordMul(toWord(8), HashMul))
        mixed == wordMul(shiftMix(wordMul(data, HashMul)), HashMul)
        hash == wordMul(wordXor(start, mixed), HashMul)
    IN shiftMix(wordMul(shiftMix(hash), HashMul))

\* std::hash<double>{}(num / den)
stdHashDouble(num, den) ==
    IF num = 0 /\ den # 0 THEN toWord(0) ELSE hashBytes(doubleBits(num, den))

-----------------------------------------------------------------------------
(* ShapeConverter.cpp, the seed of an initial shape                        *)

\* 0x9e3779b9 as a size_t
goldenRatio == <<185, 121, 55, 158, 0, 0, 0, 0>>

\* hash_combine: seed ^= value + 0x9e3779b9 + (seed << 6) + (seed >> 2)
hash_combine(seed, value) ==
    wordXor(seed, wordAdd(wordAdd(wordAdd(value, goldenRatio), wordShl(seed, 6)),
                          wordShr(seed, 2)))

\* static_cast<int32_t>(hash): the low 32 bits read as a signed number
toSigned(h) ==
    (IF h[4] >= 128 THEN h[4] - 256 ELSE h[4]) * (2 ^ 24)
        + h[3] * 65536 + h[2] * 256 + h[1]

\* getRandomSeed, else branch: the hash of the centroid
centroidSeed(ch) ==
    LET c == getCentroid(ch)
        h1 == hash_combine(toWord(0), stdHashDouble(c.sum[1], c.n))
        h2 == hash_combine(h1, stdHashDouble(c.sum[2], c.n))
        h3 == hash_combine(h2, stdHashDouble(c.sum[3], c.n))
    IN toSigned(h3)

\* mutant: the attribute is ignored
getRandomSeed_hashOnly(in, firstPrim, ch) == centroidSeed(ch)

\* getRandomSeed: the random-seed primitive attribute of the first primitive
\* if it exists with integer storage, else the hash of the centroid
getRandomSeed(in, firstPrim, ch) ==
    IF in.seedKind = "int32" THEN seedAttrValue(firstPrim) ELSE centroidSeed(ch)

\* ShapeConverter::get, one partition: the initial shape and its seed
initialShapeOf(in, key) ==
    LET prims == partitionPrims(in, key)
        ch == convertPrims(newConversionHelper, in, prims, 1)
    IN [key |-> key, prims |-> prims, indices |-> ch.indices,
        faceCounts |-> ch.faceCounts, holes |-> ch.holes, uvSets |-> ch.uvSets,
        seed |-> getRandomSeed(in, prims[1], ch)]

\* ShapeConverter::get: one initial shape per partition
getShapes(in) ==
    LET keys == sortedKeys(partitionKeys(in))
    IN [k \in 1..Len(keys) |-> initialShapeOf(in, keys[k])]

\* extractHoles runs into undefined behaviour on some polygon of the detail
getHasUB(in) ==
    \E i \in 1..Len(in.prims) :
        in.prims[i].type = "poly" /\ extractHoles(sourceOf(in.prims[i].face)).ub

\* mutant: the override flag is ignored
putSeed_derived(in, shape) == shape.seed

\* ShapeConverter::put: the seed written to the primitives of an initial shape
putSeed(in, shape) == IF in.override THEN in.nodeSeed ELSE shape.seed

\* ShapeConverter::put: the random-seed attribute of every primitive
putSeeds(in, shapes) ==
    [i \in 1..Len(in.prims) |->
        LET k == CHOOSE k \in 1..Len(shapes) : i \in Range(shapes[k].prims)
        IN putSeed(in, shapes[k])]


-----------------------------------------------------------------------------
(* SpecHoles: one extractHoles call on a chosen polygon                    *)

HolesInit ==
    /\ hpoly \in BridgedPolys \cup FreePolys
    /\ hsrc = sourceOf(hpoly)
    /\ hres = [status |-> "idle", rings |-> <<>>, ub |-> FALSE]
    /\ RMUnused
    /\ MCUnused
    /\ SCUnused
    /\ OthersUnused

ExtractHoles ==
    /\ hres.status = "idle"
    /\ hres' \in extractHolesOutcomes(hsrc)
    /\ UNCHANGED <<hpoly, hsrc, holesOthers>>

HolesNext == ExtractHoles

SpecHoles == HolesInit /\ [][HolesNext]_vars


-----------------------------------------------------------------------------
(* SpecRM: threads calling PRTContext::getResolveMap                       *)

HolesUnused ==
    /\ hpoly = [kind |-> "none"]
    /\ hsrc = faceSource(<<>>, {})
    /\ hres = [status |-> "idle", rings |-> <<>>, ub |-> FALSE]

RMInit ==
    /\ rmBuild \in {[test |-> TRUE, director |-> FALSE],
                    [test |-> FALSE, director |-> FALSE],
                    [test |-> FALSE, director |-> TRUE]}
    /\ rmMutex = NoThread
    /\ rmPc = [t \in RMThreads |-> "idle"]
    /\ rmArg = [t \in RMThreads |-> 0]
    /\ rmCalls = 0
    /\ rmLookup = [t \in RMThreads |-> NoLookup]
    /\ rmTrace = [t \in RMThreads |-> <<>>]
    /\ rmForced = [t \in RMThreads |-> {}]
    /\ rmDone = NoCall
    /\ rmCache = [p \in Paths |-> NoEntry]
    /\ rmLru = <<>>
    /\ rmFileTime = [p \in Paths |-> 0]
    /\ rmReleased = <<>>
    /\ HolesUnused
    /\ MCUnused
    /\ SCUnused
    /\ OthersUnused

\* a thread calls getResolveMap(rpk)
RMCall(t, rpk) ==
    /\ rmPc[t] = "idle"
    /\ rmReleased = <<>>
    /\ rmCalls + Cardinality({u \in RMThreads : rmPc[u] # "idle"}) < MaxRMCalls
    /\ rmPc' = [rmPc EXCEPT ![t] = "lock"]
    /\ rmArg' = [rmArg EXCEPT ![t] = rpk]
    /\ UNCHANGED <<rmBuild, rmMutex, rmCalls, rmLookup, rmTrace, rmForced, rmDone,
                   rmCache, rmLru, rmFileTime, rmReleased, rmOthers>>

\* std::lock_guard<std::mutex> lock(mResolveMapCacheMutex)
RMLock(t) ==
    /\ rmPc[t] = "lock"
    /\ mutexAvailable(rmMutex)
    /\ rmMutex' = t
    /\ rmPc' = [rmPc EXCEPT ![t] = afterLock]
    /\ UNCHANGED <<rmBuild, rmArg, rmCalls, rmLookup, rmTrace, rmForced, rmDone, rmCache,
                   rmLru, rmFileTime, rmReleased, rmOthers>>

\* mResolveMapCache->get, first half: the lookup.  A valid entry is a HIT and
\* is returned; otherwise get goes on to build the map.
RMLookup(t) ==
    /\ rmPc[t] = "lookup"
    /\ IF cacheValid(rmCache, rmFileTime, rmArg[t])
       THEN /\ rmLookup' = [rmLookup EXCEPT ![t] =
                                [map |-> rmCache[rmArg[t]].map, status |-> "HIT"]]
            /\ rmLru' = lruTouch(rmLru, rmArg[t])
            /\ rmPc' = [rmPc EXCEPT ![t] =
                            IF missSideEffects("HIT") THEN afterMiss ELSE "return"]
       ELSE /\ rmPc' = [rmPc EXCEPT ![t] = "build"]
            /\ UNCHANGED <<rmLookup, rmLru>>
    /\ rmTrace' = [rmTrace EXCEPT ![t] = Append(@, "lookup")]
    /\ UNCHANGED <<rmBuild, rmMutex, rmArg, rmCalls, rmForced, rmDone, rmCache, rmFileTime, rmReleased, rmOthers>>

\* mResolveMapCache->get, second half: the map is built from the package file
\* and inserted, and get returns it with status MISS
RMBuild(t) ==
    /\ rmPc[t] = "build"
    /\ rmCache' = cacheInsert(rmCache, rmLru, rmFileTime, rmArg[t])
    /\ rmLru' = lruInsert(rmLru, rmArg[t])
    /\ rmLookup' = [rmLookup EXCEPT ![t] =
                        [map |-> buildResolveMap(rmFileTime, rmArg[t]), status |-> "MISS"]]
    /\ rmTrace' = [rmTrace EXCEPT ![t] = Append(@, "insert")]
    /\ rmPc' = [rmPc EXCEPT ![t] =
                    IF missSideEffects("MISS") THEN afterMiss ELSE "return"]
    /\ UNCHANGED <<rmBuild, rmDone, rmMutex, rmArg, rmCalls, rmForced, rmFileTime, rmReleased, rmOthers>>

\* mPRTCache->flushAll()
RMFlush(t) ==
    /\ rmPc[t] = "flush"
    /\ rmTrace' = [rmTrace EXCEPT ![t] = Append(@, "flush")]
    /\ rmPc' = [rmPc EXCEPT ![t] = afterFlush(rmBuild)]
    /\ UNCHANGED <<rmBuild, rmMutex, rmArg, rmCalls, rmLookup, rmForced, rmDone, rmCache,
                   rmLru, rmFileTime, rmReleased, rmOthers>>

\* scheduleRecook(rpk)
RMRecook(t) ==
    /\ rmPc[t] = "recook"
    /\ rmForced' = [rmForced EXCEPT ![t] = @ \cup scheduleRecook(rmBuild, rmArg[t])]
    /\ rmTrace' = [rmTrace EXCEPT ![t] = Append(@, "recook")]
    /\ rmPc' = [rmPc EXCEPT ![t] = "return"]
    /\ UNCHANGED <<rmBuild, rmMutex, rmArg, rmCalls, rmLookup, rmDone, rmCache, rmLru,
                   rmFileTime, rmReleased, rmOthers>>

\* return lookupResult.first; the lock_guard releases the mutex
RMReturn(t) ==
    /\ rmPc[t] = "return"
    /\ rmMutex' = IF rmMutex = t THEN NoThread ELSE rmMutex
    /\ rmDone' = [arg |-> rmArg[t], map |-> rmLookup[t].map, status |-> rmLookup[t].status,
                  trace |-> Append(rmTrace[t], "return"), forced |-> rmForced[t]]
    /\ rmCalls' = rmCalls + 1
    /\ rmPc' = [rmPc EXCEPT ![t] = "idle"]
    /\ rmArg' = [rmArg EXCEPT ![t] = 0]
    /\ rmLookup' = [rmLookup EXCEPT ![t] = NoLookup]
    /\ rmTrace' = [rmTrace EXCEPT ![t] = <<>>]
    /\ rmForced' = [rmForced EXCEPT ![t] = {}]
    /\ UNCHANGED <<rmBuild, rmCache, rmLru, rmFileTime, rmReleased, rmOthers>>

\* the environment: a package file is rewritten on disk
RMTouch(p) ==
    /\ SumOver(rmFileTime, Paths) < MaxTouches
    /\ rmFileTime' = [rmFileTime EXCEPT ![p] = @ + 1]
    /\ UNCHANGED <<rmBuild, rmMutex, rmPc, rmArg, rmCalls, rmLookup, rmTrace, rmForced,
                   rmDone, rmCache, rmLru, rmReleased, rmOthers>>

\* the order in which the destructor lets go of what the context holds; the
\* reverse, for comparison
destructionOrder_reversed ==
    <<"mLogHandler", "mPRTHandle", "mPRTCache", "mResolveMapCache">>

\* ~PRTContext: mResolveMapCache.reset(), mPRTCache.reset(),
\* mPRTHandle.reset(), prt::removeLogHandler(mLogHandler.get())
destructionOrder ==
    <<"mResolveMapCache", "mPRTCache", "mPRTHandle", "mLogHandler">>

\* one step of ~PRTContext; no getResolveMap call is in progress.  With the
\* Resolve-Map Cache its entries are gone.
RMDestroy ==
    /\ \A t \in RMThreads : rmPc[t] = "idle"
    /\ Len(rmReleased) < Len(destructionOrder)
    /\ rmReleased' = Append(rmReleased, destructionOrder[Len(rmReleased) + 1])
    /\ IF rmReleased = <<>>
       THEN /\ rmCache' = [p \in Paths |-> NoEntry]
            /\ rmLru' = <<>>
       ELSE UNCHANGED <<rmCache, rmLru>>
    /\ UNCHANGED <<rmBuild, rmMutex, rmPc, rmArg, rmCalls, rmLookup, rmTrace, rmForced,
                   rmDone, rmFileTime, rmOthers>>

RMNext ==
    \/ \E t \in RMThreads, p \in Paths : RMCall(t, p)
    \/ \E t \in RMThreads : RMLock(t)
    \/ \E t \in RMThreads : RMLookup(t)
    \/ \E t \in RMThreads : RMBuild(t)
    \/ \E t \in RMThreads : RMFlush(t)
    \/ \E t \in RMThreads : RMRecook(t)
    \/ \E t \in RMThreads : RMReturn(t)
    \/ \E p \in Paths : RMTouch(p)
    \/ RMDestroy

SpecRM == RMInit /\ [][RMNext]_vars

-----------------------------------------------------------------------------
(* Properties of PRTContext::getResolveMap (SpecRM)                        *)



-----------------------------------------------------------------------------
(* SpecMC: generate workers calling back into one ModelConverter           *)

MCInit ==
    /\ mcEmit \in BOOLEAN
    /\ mcMutex = NoThread
    /\ mcPc = [w \in Workers |-> "start"]
    /\ mcJob = [w \in Workers |-> NoJob]
    /\ mcNext = 0
    /\ mcAcc = [w \in Workers |-> "none"]
    /\ mcBuilders = NoBuilders
    /\ mcRaced = FALSE
    /\ mcDetail = EmptyDetail
    /\ mcLast = NoWrite
    /\ mcHoleGroups = <<>>
    /\ mcAdded = [i \in ShapeIds |-> -1]
    /\ mcBuilt = 0
    /\ mcStatuses = [i \in ShapeIds |-> "STATUS_OK"]
    /\ mcErr = NoError
    /\ HolesUnused
    /\ RMUnused
    /\ SCUnused
    /\ OthersUnused

\* the encoder starts delivering the next initial shape on worker w: with
\* emitAttributes an attr callback comes first, then add
MCStartJob(w) ==
    /\ mcPc[w] = "start"
    /\ mcNext < MaxShapes
    /\ mcNext' = mcNext + 1
    /\ mcJob' = [mcJob EXCEPT ![w] = [id |-> mcNext + 1, holes |-> 0]]
    /\ mcPc' = [mcPc EXCEPT ![w] = IF mcEmit THEN "attrFind" ELSE "addLock"]
    /\ UNCHANGED <<mcEmit, mcMutex, mcAcc, mcBuilders, mcRaced, mcDetail, mcLast,
                   mcHoleGroups, mcAdded, mcBuilt, mcStatuses, mcErr,
                   mcOthers>>

\* attrBool/attrFloat/attrString...: getBuilder starts amb.find(shapeID)
MCAttrFindBegin(w) ==
    /\ mcPc[w] = "attrFind"
    /\ mcAcc' = [mcAcc EXCEPT ![w] = "R"]
    /\ mcRaced' = (mcRaced \/ racesWith(mcAcc, w, "R"))
    /\ mcPc' = [mcPc EXCEPT ![w] = "attrFinding"]
    /\ UNCHANGED <<mcEmit, mcMutex, mcJob, mcNext, mcBuilders, mcDetail, mcLast,
                   mcHoleGroups, mcAdded, mcBuilt, mcStatuses, mcErr,
                   mcOthers>>

\* amb.find(shapeID) returns; with a builder found its set... method is
\* called and the callback returns, the encoder goes on to call add
MCAttrFindEnd(w) ==
    /\ mcPc[w] = "attrFinding"
    /\ mcAcc' = [mcAcc EXCEPT ![w] = "none"]
    /\ \E found \in findOutcomes(mcBuilders, mcJob[w].id, mcRaced) :
          mcPc' = [mcPc EXCEPT ![w] = IF found THEN "addLock" ELSE "attrEmplace"]
    /\ UNCHANGED <<mcEmit, mcMutex, mcJob, mcNext, mcBuilders, mcRaced, mcDetail, mcLast,
                   mcHoleGroups, mcAdded, mcBuilt, mcStatuses, mcErr,
                   mcOthers>>

\* getBuilder starts amb.emplace(shapeID, ...)
MCAttrEmplaceBegin(w) ==
    /\ mcPc[w] = "attrEmplace"
    /\ mcAcc' = [mcAcc EXCEPT ![w] = "W"]
    /\ mcRaced' = (mcRaced \/ racesWith(mcAcc, w, "W"))
    /\ mcPc' = [mcPc EXCEPT ![w] = "attrEmplacing"]
    /\ UNCHANGED <<mcEmit, mcMutex, mcJob, mcNext, mcBuilders, mcDetail, mcLast,
                   mcHoleGroups, mcAdded, mcBuilt, mcStatuses, mcErr,
                   mcOthers>>

\* amb.emplace returns, the builder's set... method is called and the
\* callback returns; the encoder goes on to call add. A raced insertion may
\* instead end the process (SIGSEGV in std::map::emplace): every thread stops.
MCAttrEmplaceEnd(w) ==
    /\ mcPc[w] = "attrEmplacing"
    /\ mcAcc' = [mcAcc EXCEPT ![w] = "none"]
    /\ \E out \in emplaceOutcomes(mcBuilders, mcJob[w].id, mcRaced) :
          /\ mcBuilders' = [ids |-> out.ids, size |-> out.size]
          /\ mcPc' = IF out.crashed
                     THEN [v \in Workers |-> "crashed"]
                     ELSE [mcPc EXCEPT ![w] = "addLock"]
    /\ UNCHANGED <<mcEmit, mcMutex, mcJob, mcNext, mcRaced, mcDetail, mcLast,
                   mcHoleGroups, mcAdded, mcBuilt, mcStatuses, mcErr,
                   mcOthers>>

\* add(..., holeCounts, ...): std::lock_guard<std::mutex> guard(mDetailMutex)
MCAddLock(w, holes) ==
    /\ mcPc[w] = "addLock"
    /\ detailMutexAvailable(mcMutex)
    /\ mcMutex' = w
    /\ mcJob' = [mcJob EXCEPT ![w].holes = holes]
    /\ mcPc' = [mcPc EXCEPT ![w] = "points"]
    /\ UNCHANGED <<mcEmit, mcNext, mcAcc, mcBuilders, mcRaced, mcDetail, mcLast,
                   mcHoleGroups, mcAdded, mcBuilt, mcStatuses, mcErr,
                   mcOthers>>

\* createPrimitives: points, primitives, normals, UVs, hole groups, primitive
\* group, one step each
MCCreate(w) ==
    /\ mcPc[w] \in {"points", "prims", "normals", "uvs", "holeGroups", "primGroup"}
    /\ mcDetail' = detailAfter(mcDetail, mcPc[w])
    /\ mcLast' = [id |-> mcJob[w].id, step |-> mcPc[w]]
    /\ mcHoleGroups' = IF mcPc[w] = "holeGroups"
                       THEN appendHoleGroups(mcHoleGroups, mcJob[w].id, mcJob[w].holes,
                                             w, mcMutex)
                       ELSE mcHoleGroups
    /\ mcPc' = [mcPc EXCEPT ![w] = nextAddStep(mcPc[w])]
    /\ UNCHANGED <<mcEmit, mcMutex, mcJob, mcNext, mcAcc, mcBuilders, mcRaced, mcAdded,
                   mcBuilt, mcStatuses, mcErr,
                   mcOthers>>

\* add, per face range: materials/reports are converted and
\* mShapeAttributeBuilders.empty() / find(shapeID) is started
MCAddAttrsBegin(w) ==
    /\ mcPc[w] = "attrs"
    /\ mcAcc' = [mcAcc EXCEPT ![w] = "R"]
    /\ mcRaced' = (mcRaced \/ racesWith(mcAcc, w, "R"))
    /\ mcPc' = [mcPc EXCEPT ![w] = "attrsReading"]
    /\ UNCHANGED <<mcEmit, mcMutex, mcJob, mcNext, mcBuilders, mcDetail, mcLast,
                   mcHoleGroups, mcAdded, mcBuilt, mcStatuses, mcErr,
                   mcOthers>>

\* the builder lookup returns and the shape attributes are written
MCAddAttrsEnd(w) ==
    /\ mcPc[w] = "attrsReading"
    /\ mcAcc' = [mcAcc EXCEPT ![w] = "none"]
    /\ mcDetail' = detailAfter(mcDetail, "attrs")
    /\ mcLast' = [id |-> mcJob[w].id, step |-> "attrs"]
    /\ mcPc' = [mcPc EXCEPT ![w] = "unlock"]
    /\ UNCHANGED <<mcEmit, mcMutex, mcJob, mcNext, mcBuilders, mcRaced, mcHoleGroups,
                   mcAdded, mcBuilt, mcStatuses, mcErr,
                   mcOthers>>

\* add returns; the lock_guard releases mDetailMutex
MCAddReturn(w) ==
    /\ mcPc[w] = "unlock"
    /\ mcMutex' = IF mcMutex = w THEN NoThread ELSE mcMutex
    /\ mcAdded' = [mcAdded EXCEPT ![mcJob[w].id] = mcJob[w].holes]
    /\ mcJob' = [mcJob EXCEPT ![w] = NoJob]
    /\ mcPc' = [mcPc EXCEPT ![w] = "start"]
    /\ UNCHANGED <<mcEmit, mcNext, mcAcc, mcBuilders, mcRaced, mcDetail, mcLast,
                   mcHoleGroups, mcBuilt, mcStatuses, mcErr,
                   mcOthers>>

\* ModelConverter::buildHoles, called by the generate node once the generate
\* workers have finished
MCBuildHoles ==
    /\ \A w \in Workers : mcPc[w] = "start"
    /\ mcBuilt < MaxBuildHoles
    /\ mcHoleGroups' = buildHolesGroups(mcHoleGroups)
    /\ mcBuilt' = mcBuilt + 1
    /\ UNCHANGED <<mcEmit, mcMutex, mcPc, mcJob, mcNext, mcAcc, mcBuilders, mcRaced,
                   mcDetail, mcLast, mcAdded, mcStatuses, mcErr,
                   mcOthers>>

\* the engine fails to generate the next initial shape on worker w and
\* reports it: ModelConverter::generateError(isIndex, status, message)
MCGenerateError(w, status) ==
    /\ mcPc[w] = "start"
    /\ mcNext < MaxShapes
    /\ mcNext' = mcNext + 1
    /\ mcStatuses' = generateErrorStatuses(mcStatuses, mcNext, status)
    /\ mcErr' = [n |-> mcErr.n + 1, idx |-> mcNext, status |-> status,
                 ret |-> generateErrorReturn, detail |-> mcDetail]
    /\ UNCHANGED <<mcEmit, mcMutex, mcPc, mcJob, mcAcc, mcBuilders, mcRaced, mcDetail,
                   mcLast, mcHoleGroups, mcAdded, mcBuilt, mcOthers>>

MCNext ==
    \/ \E w \in Workers : MCStartJob(w)
    \/ \E w \in Workers : MCAttrFindBegin(w)
    \/ \E w \in Workers : MCAttrFindEnd(w)
    \/ \E w \in Workers : MCAttrEmplaceBegin(w)
    \/ \E w \in Workers : MCAttrEmplaceEnd(w)
    \/ \E w \in Workers, holes \in HoleFaceCounts : MCAddLock(w, holes)
    \/ \E w \in Workers : MCCreate(w)
    \/ \E w \in Workers : MCAddAttrsBegin(w)
    \/ \E w \in Workers : MCAddAttrsEnd(w)
    \/ \E w \in Workers : MCAddReturn(w)
    \/ \E w \in Workers, status \in ErrorStatuses : MCGenerateError(w, status)
    \/ MCBuildHoles

SpecMC == MCInit /\ [][MCNext]_vars

-----------------------------------------------------------------------------
(* SpecSC: ShapeConverter::get followed by ShapeConverter::put             *)

\* the details checked without an integer random-seed attribute, whose seeds
\* get derives from the centroid: a single primitive of any kind, or a
\* sequence of the primitives of SCMorePrims
SCCentroidPrimSeqs ==
    {<<p>> : p \in SCPrims} \cup UNION {[1..n -> SCMorePrims] : n \in 1..MaxSCPrims}

SCInit ==
    /\ scIn \in {in \in [prims : SCPrimSeqs, cls : {"own", "one", "pairs"},
                         seedKind : {"none", "int32", "float"}, uvValid : SCUVChoices,
                         override : BOOLEAN, nodeSeed : {NodeSeed}] :
                    in.seedKind = "int32" \/ in.prims \in SCCentroidPrimSeqs}
    /\ scPc = "in"
    /\ scShapes = <<>>
    /\ scOut = <<>>
    /\ HolesUnused
    /\ RMUnused
    /\ MCUnused
    /\ OthersUnused

\* ShapeConverter::get(detail, primCls, shapeData, prtCtx)
SCGet ==
    /\ scPc = "in"
    /\ \E crash \in {b \in BOOLEAN : b => getHasUB(scIn)} :
          IF crash
          THEN scPc' = "crashed" /\ UNCHANGED scShapes
          ELSE scPc' = "got" /\ scShapes' = getShapes(scIn)
    /\ UNCHANGED <<scIn, scOut, scOthers>>

\* ShapeConverter::put(detail, primCls, shapeData)
SCPut ==
    /\ scPc = "got"
    /\ scOut' = putSeeds(scIn, scShapes)
    /\ scPc' = "put"
    /\ UNCHANGED <<scIn, scShapes, scOthers>>

SCNext == SCGet \/ SCPut

SpecSC == SCInit /\ [][SCNext]_vars

-----------------------------------------------------------------------------
(* Properties of extractHoles (SpecHoles)                                  *)

HolesCalled == hres.status # "idle"

HolesReturned == hres.status = "returned"

\* the points of the vertices listed in ring i (1-based) of a result
pointsOfRing(source, rings, i) ==
    {getPointIndex(source, rings[i][j]) : j \in 1..Len(rings[i])}

\* a ring lists its vertices in traversal order
inTraversalOrder(ring) ==
    \A i, j \in 1..Len(ring) : i < j => ring[i] < ring[j]

pointsOfHole(d, c) == {ringPoint(d, c, k) : k \in 0..(d.n - 1)}

startsOnOuter(d) == ringOfPoint(d, bridgedPoints(d)[1]) = 0

\* the first edge of the traversal is an edge of the outer ring
startsAlongOuter(d) ==
    /\ ringOfPoint(d, bridgedPoints(d)[1]) = 0
    /\ ringOfPoint(d, bridgedPoints(d)[2]) = 0

\* ring i of the result is exactly ring c of the bridged polygon
ringIsHole(d, i, c) ==
    /\ Len(hres.rings[i]) = d.n
    /\ pointsOfRing(hsrc, hres.rings, i) = pointsOfHole(d, c)
    /\ inTraversalOrder(hres.rings[i])

noBridgeEdges(source) ==
    \A i \in 1..Len(getEdges(source)) :
        ~isBridge(source, getPointIndex(source, getEdges(source)[i][1]),
                          getPointIndex(source, getEdges(source)[i][2]))

\* C1: for a bridged polygon with N >= 0 holes whose traversal starts on the
\* outer ring (here even: starts with an edge of the outer ring), extractHoles
\* returns N+1 rings, ring 0 holding exactly the outer-ring vertices and every
\* hole being exactly one of rings 1..N, each in traversal order.
C1_OneRingPerHole ==
    (HolesCalled /\ hpoly.kind = "bridged" /\ startsAlongOuter(hpoly)) =>
        /\ HolesReturned
        /\ Len(hres.rings) = Len(hpoly.holes) + 1
        /\ ringIsHole(hpoly, 1, 0)
        /\ \A c \in 1..Len(hpoly.holes) :
              \E i \in 2..Len(hres.rings) : ringIsHole(hpoly, i, c)

\* C2: for every polygon of an outer ring and exactly one hole joined by one
\* bridge edge pair, extractHoles returns exactly two rings, the outer ring
\* first and the hole second, each with its own vertices, and together they
\* cover the input's points.
C2_OuterThenHole ==
    (HolesCalled /\ hpoly.kind = "bridged" /\ Len(hpoly.holes) = 1) =>
        /\ HolesReturned
        /\ Len(hres.rings) = 2
        /\ ringIsHole(hpoly, 1, 0)
        /\ ringIsHole(hpoly, 2, 1)
        /\ pointsOfRing(hsrc, hres.rings, 1) \cup pointsOfRing(hsrc, hres.rings, 2)
              = Range(bridgedPoints(hpoly))

\* C3: when isBridge is false on every edge, extractHoles returns exactly one
\* ring, listing the start vertex of every edge once, in traversal order.
C3_NoBridgeSingleRing ==
    (HolesCalled /\ noBridgeEdges(hsrc)) =>
        /\ HolesReturned
        /\ Len(hres.rings) = 1
        /\ Len(hres.rings[1]) = Len(getEdges(hsrc))
        /\ \A i \in 1..Len(getEdges(hsrc)) : hres.rings[1][i] = getEdges(hsrc)[i][1]

C3_Witness ==
    /\ HolesReturned
    /\ noBridgeEdges(hsrc)
    /\ hsrc.bridge # {}
    /\ hres.rings = << <<0, 1, 2>> >>

\* the same face with its traversal started k vertices later
rotatedSource(source, k) ==
    faceSource(Rotate([i \in 1..Len(source.edges) |-> source.pointOf[i - 1]], k),
               source.bridge)

\* which points form ring 0, ring 1, ...
ringStructure(source, rings) ==
    [i \in 1..Len(rings) |-> pointsOfRing(source, rings, i)]

bridgesOneDirection(source) ==
    LET c == collected(source)
        all == getEdges(source)
        pa(i) == getPointIndex(source, all[i][1])
        pb(i) == getPointIndex(source, all[i][2])
    IN /\ \A b1, b2 \in c.bridges : {b1[1], b1[2]} = {b2[1], b2[2]} => b1 = b2
       /\ {{b[1], b[2]} : b \in c.bridges}
             = {{pa(i), pb(i)} : i \in {j \in 1..Len(all) : isBridge(source, pa(j), pb(j))}}

\* C4 as claimed: one bridge entry per undirected point pair, and the same
\* ring structure whichever direction of a bridge the traversal meets first
\* (wherever the traversal of the same polygon starts); compared here only
\* between traversals on which the ring index stays in range.
C4_SameRingsAnyDirection ==
    (HolesReturned /\ ~hres.ub) =>
        /\ bridgesOneDirection(hsrc)
        /\ \A k \in 0..(Len(hsrc.edges) - 1) :
              \A o \in extractHolesOutcomes(rotatedSource(hsrc, k)) :
                  ~o.ub => ringStructure(rotatedSource(hsrc, k), o.rings)
                              = ringStructure(hsrc, hres.rings)

\* What the code does about bridge directions (C4): the bridge set holds one
\* entry per undirected point pair, stored in the direction the traversal meets
\* first; the rings depend on that direction: ring 0 is the ring the walk
\* starts on (it begins with the start vertex of the first non-bridge edge),
\* whichever ring of the polygon that is.
C4_BridgeKeepsFirstDirection ==
    HolesCalled =>
        LET c == collected(hsrc)
            all == getEdges(hsrc)
            pa(i) == getPointIndex(hsrc, all[i][1])
            pb(i) == getPointIndex(hsrc, all[i][2])
        IN /\ bridgesOneDirection(hsrc)
           /\ \A b \in c.bridges :
                 \E i \in 1..Len(all) :
                    /\ <<pa(i), pb(i)>> = b
                    /\ \A j \in 1..(i - 1) : {pa(j), pb(j)} # {b[1], b[2]}
           /\ (HolesReturned /\ ~hres.ub /\ c.edges # <<>>) =>
                 /\ hres.rings[1] # <<>>
                 /\ hres.rings[1][1] = c.edges[1][1]

\* a one-hole polygon traversed from inside the hole: the bridge is stored
\* pointing outward and ring 0 is the hole
C4_Witness ==
    /\ HolesReturned
    /\ ~hres.ub
    /\ hpoly.kind = "bridged"
    /\ Len(hpoly.holes) = 1
    /\ ~startsOnOuter(hpoly)
    /\ collected(hsrc).bridges = {<<ringPoint(hpoly, 1, 0), ringPoint(hpoly, 0, hpoly.holes[1].at)>>}
    /\ Len(hres.rings) = 2
    /\ pointsOfRing(hsrc, hres.rings, 1) = pointsOfHole(hpoly, 1)
    /\ pointsOfRing(hsrc, hres.rings, 2) = pointsOfHole(hpoly, 0)

\* C24 as stated: whenever detectFaceAndHoles appends a vertex, the ring
\* index names an existing ring, so no call runs into an out-of-range access
C24_RingIndexInRange == HolesCalled => ~hres.ub

\* the edges of the source that are not bridges, by their position
nonBridgeEdges(source) ==
    {i \in 1..Len(source.edges) :
        {source.pointOf[source.edges[i][1]], source.pointOf[source.edges[i][2]]}
            \notin source.bridge}

\* the non-bridge edges that end at the start point of a stored bridge
inwardEdges(source) ==
    {i \in nonBridgeEdges(source) :
        \E b \in collected(source).bridges : source.pointOf[source.edges[i][2]] = b[1]}

\* the places (ring, position) of a result
ringSlots(rings) ==
    UNION {{<<r, k>> : k \in 1..Len(rings[r])} : r \in 1..Len(rings)}

\* C27: when the ring index stayed in range, the rings hold the start vertex
\* of every non-bridge edge exactly once and nothing else, as many vertices
\* as there are non-bridge edges, and there is one ring more than there are
\* edges ending at the start point of a stored bridge.
C27_VerticesConserved ==
    (HolesReturned /\ ~hres.ub) =>
        LET edges == nonBridgeEdges(hsrc)
            starts == {hsrc.edges[i][1] : i \in edges}
            slots == ringSlots(hres.rings)
        IN /\ \A v \in starts :
                 Cardinality({sl \in slots : hres.rings[sl[1]][sl[2]] = v}) = 1
           /\ \A sl \in slots : hres.rings[sl[1]][sl[2]] \in starts
           /\ Cardinality(slots) = Cardinality(edges)
           /\ Len(hres.rings) = 1 + Cardinality(inwardEdges(hsrc))

\* C27 witness: an outer ring with a hole inside a hole came back as three
\* rings that hold every vertex but the four that start a bridge edge
C27_Witness ==
    /\ HolesReturned
    /\ ~hres.ub
    /\ hpoly.kind = "bridged"
    /\ Len(hpoly.holes) = 2
    /\ hpoly.holes[2].parent = 1
    /\ Len(hres.rings) = 3
    /\ \A r \in 1..3 : Len(hres.rings[r]) = hpoly.n
    /\ Cardinality(nonBridgeEdges(hsrc)) = 3 * hpoly.n
    /\ Len(hsrc.edges) = 3 * hpoly.n + 4

-----------------------------------------------------------------------------
(* Properties of getResolveMap (SpecRM)                                    *)

\* the last call of thread t has returned
\* the statements of getResolveMap after the lock was taken
RMLockedSection == {"lookup", "build", "flush", "recook", "return"}

\* C5: a getResolveMap call whose lookup reports MISS performs exactly one
\* flushAll of the engine cache and, outside test builds, exactly one
\* scheduleRecook pass (forcing the Assign nodes bound to the path) before it
\* returns; a call that reports HIT performs no flush and no recook.
C5_MissFlushesAndRecooksOnce ==
    /\ \A t \in RMThreads :
          /\ Count(rmTrace[t], "flush") <= 1
          /\ Count(rmTrace[t], "recook") <= 1
          /\ rmLookup[t].status = "HIT" =>
                /\ Count(rmTrace[t], "flush") = 0
                /\ Count(rmTrace[t], "recook") = 0
                /\ rmForced[t] = {}
    /\ rmDone.status = "MISS" =>
          /\ Count(rmDone.trace, "flush") = 1
          /\ Before(rmDone.trace, "flush", "return")
          /\ Count(rmDone.trace, "recook") = (IF rmBuild.test THEN 0 ELSE 1)
          /\ ~rmBuild.test => Before(rmDone.trace, "recook", "return")
          /\ rmBuild.director =>
                rmDone.forced = {n \in AssignNodes : nodeRPK(n) = rmDone.arg}
    /\ rmDone.status = "HIT" =>
          /\ Count(rmDone.trace, "flush") = 0
          /\ Count(rmDone.trace, "recook") = 0
          /\ rmDone.forced = {}

\* one call got a MISS for a path and forced its Assign nodes; the next call
\* for the same path got a HIT with the same map and is about to return
\* having done nothing but the lookup
C5_Witness ==
    \E t \in RMThreads :
        /\ rmDone.status = "MISS"
        /\ rmBuild.director
        /\ rmDone.forced # {}
        /\ rmPc[t] = "return"
        /\ rmArg[t] = rmDone.arg
        /\ rmLookup[t].status = "HIT"
        /\ rmLookup[t].map = rmDone.map
        /\ rmTrace[t] = <<"lookup">>

\* C6 as claimed: on a miss the flush and the recook request happen before
\* the new map is inserted into the Resolve-Map Cache (and before the return).
C6_FlushBeforeInsert ==
    \A t \in RMThreads :
        Count(rmTrace[t], "insert") > 0 =>
            /\ Before(rmTrace[t], "flush", "insert")
            /\ ~rmBuild.test => Before(rmTrace[t], "recook", "insert")

\* C6 amended: on a miss the new map is built and inserted into the cache
\* first, by the cache's get; the flush and then the recook request follow the
\* insertion and precede the return, with the mutex held throughout.
C6_InsertThenFlushThenReturn ==
    /\ \A t \in RMThreads :
          /\ Count(rmTrace[t], "flush") > 0 => Before(rmTrace[t], "insert", "flush")
          /\ Count(rmTrace[t], "recook") > 0 => Before(rmTrace[t], "flush", "recook")
          /\ rmPc[t] \in {"flush", "recook"} => rmMutex = t
    /\ rmDone.status = "MISS" =>
          rmDone.trace = IF rmBuild.test
                         THEN <<"lookup", "insert", "flush", "return">>
                         ELSE <<"lookup", "insert", "flush", "recook", "return">>

\* a call that missed has returned the map it inserted, after flush and recook
C6_Witness ==
    /\ ~rmBuild.test
    /\ rmDone.status = "MISS"
    /\ rmCache[rmDone.arg].map = rmDone.map
    /\ rmDone.trace = <<"lookup", "insert", "flush", "recook", "return">>

\* C7: at most one thread at a time is between taking the lock and the return
\* of getResolveMap, it holds the mutex, and a thread that goes on to build a
\* map never does so while a valid entry for its path is in the cache (two
\* concurrent requests for one uncached path do not both build it).
C7_OneResolveAtATime ==
    /\ Cardinality({t \in RMThreads : rmPc[t] \in RMLockedSection}) <= 1
    /\ \A t \in RMThreads : rmPc[t] \in RMLockedSection => rmMutex = t
    /\ \A t \in RMThreads :
          rmPc[t] = "build" => ~cacheValid(rmCache, rmFileTime, rmArg[t])

\* a second request for the same uncached path waits for the lock while the
\* first one is building the map
C7_Witness ==
    \E t1, t2 \in RMThreads :
        /\ t1 # t2
        /\ rmPc[t1] = "build"
        /\ rmPc[t2] = "lock"
        /\ rmArg[t1] = rmArg[t2]
        /\ ~cacheValid(rmCache, rmFileTime, rmArg[t2])

-----------------------------------------------------------------------------
(* Properties of ModelConverter (SpecMC)                                   *)

\* the positions of a worker inside the body of add, mutex taken
AddBody == {"points", "prims", "normals", "uvs", "holeGroups", "primGroup",
            "attrs", "attrsReading", "unlock"}

\* C8: at any time at most one worker executes the body of add on a
\* ModelConverter, and it holds mDetailMutex; between two creation steps of
\* one add call no other call has written to the detail; every deferred hole
\* group was appended while the appending worker held the mutex.
C8_AddIsSerialized ==
    /\ Cardinality({w \in Workers : mcPc[w] \in AddBody}) <= 1
    /\ \A w \in Workers : mcPc[w] \in AddBody => mcMutex = w
    /\ \A w \in Workers :
          mcPc[w] \in (AddBody \ {"points"}) => mcLast.id = mcJob[w].id
    /\ \A i \in 1..Len(mcHoleGroups) :
          mcHoleGroups[i].lock = mcHoleGroups[i].by

\* C8 witness: one worker is past the hole-group step of add, having appended
\* a group, while another worker is blocked at the entry of add
C8_Witness ==
    \E w, v \in Workers :
        /\ w # v
        /\ mcPc[w] = "primGroup"
        /\ mcJob[w].holes > 0
        /\ Len(mcHoleGroups) > 0
        /\ mcPc[v] = "addLock"

\* C9: no two workers access mShapeAttributeBuilders at the same time with
\* at least one of them writing (attr callbacks of distinct shape ids on
\* different workers, or an add looking up a builder while a callback inserts).
C9_NoBuilderRace ==
    \A w, v \in Workers : w # v => ~conflicting(mcAcc[w], mcAcc[v])

\* C10 as stated: when a buildHoles call returns, the merge has been applied
\* exactly once to every deferred group accumulated by the preceding add
\* calls and the deferred list is empty (a postcondition of the buildHoles
\* step, whatever calls come before or after it).
C10_ListEmptiedAfterBuildHoles ==
    [][mcBuilt' # mcBuilt =>
          /\ \A i \in 1..Len(mcHoleGroups) : mcHoleGroups[i].merges = 0
          /\ mcHoleGroups' = <<>>]_vars

\* C10 amended: every buildHoles call applies the merge exactly once to every
\* deferred group then in the list and leaves the list as it is (same groups,
\* same order), and the list keeps all groups of the completed add calls: a
\* completed add call with h hole faces still has its h groups in the list,
\* however many buildHoles calls were made.
C10_MergedPerCallListKept ==
    [][/\ mcBuilt' # mcBuilt =>
             /\ Len(mcHoleGroups') = Len(mcHoleGroups)
             /\ \A i \in 1..Len(mcHoleGroups) :
                    mcHoleGroups'[i] = [mcHoleGroups[i] EXCEPT !.merges = @ + 1]
       /\ \A id \in ShapeIds :
             mcAdded'[id] >= 0 =>
                 Cardinality({i \in 1..Len(mcHoleGroups') : mcHoleGroups'[i].id = id})
                     = mcAdded'[id]]_vars

\* C10 witness: buildHoles has run twice over a list holding deferred groups
\* of two add calls
C10_Witness ==
    /\ mcBuilt = 2
    /\ Len(mcHoleGroups) >= 2
    /\ \A i \in 1..Len(mcHoleGroups) : mcHoleGroups[i].merges = 2

\* C11: a generateError call stores the status in slot isIndex of the status
\* array and changes no other slot, leaves the output geometry, the deferred
\* hole groups and the position of every worker as they are, and returns
\* STATUS_OK (the engine goes on with the other initial shapes).
C11_GenerateErrorOnlyRecords ==
    [][mcErr' # mcErr =>
          /\ mcStatuses'[mcErr'.idx + 1] = mcErr'.status
          /\ \A i \in ShapeIds : i # mcErr'.idx + 1 => mcStatuses'[i] = mcStatuses[i]
          /\ mcErr'.ret = "STATUS_OK"
          /\ mcDetail' = mcDetail
          /\ mcHoleGroups' = mcHoleGroups
          /\ mcPc' = mcPc
          /\ mcMutex' = mcMutex]_vars

\* C11 witness: one initial shape failed and its status is recorded, and an
\* add for another initial shape wrote primitives after that
C11_Witness ==
    /\ mcErr.n = 1
    /\ mcStatuses[mcErr.idx + 1] \in ErrorStatuses
    /\ \E i \in ShapeIds : i # mcErr.idx + 1 /\ mcStatuses[i] = "STATUS_OK" /\ mcAdded[i] >= 0
    /\ mcDetail.prims > mcErr.detail.prims

-----------------------------------------------------------------------------
(* Properties of ShapeConverter (SpecSC)                                   *)

SCGot == scPc \in {"got", "put"}

\* the faces of the host primitive i in host vertex order, as point indices:
\* the rings of a polygon, the polygons of a soup
hostFaces(in, i) ==
    CASE in.prims[i].type = "poly" ->
             LET src == sourceOf(in.prims[i].face)
                 rings == ringsOf(in.prims[i].face)
             IN [r \in 1..Len(rings) |->
                    [k \in 1..Len(rings[r]) |-> src.pointOf[rings[r][k]]]]
      [] in.prims[i].type = "soup" -> in.prims[i].polys
      [] OTHER -> <<>>

RECURSIVE hostFacesOf(_, _, _)
hostFacesOf(in, prims, k) ==
    IF k > Len(prims) THEN <<>>
    ELSE hostFaces(in, prims[k]) \o hostFacesOf(in, prims, k + 1)

RECURSIVE sumSeq(_, _)
sumSeq(s, n) == IF n = 0 THEN 0 ELSE s[n] + sumSeq(s, n - 1)

\* face f of an initial shape: its slice of the index array
shapeFace(shape, f) ==
    SubSeq(shape.indices, sumSeq(shape.faceCounts, f - 1) + 1, sumSeq(shape.faceCounts, f))

\* C12: every face of an initial shape built by get lists the point indices
\* of its host face (ring of a polygon, polygon of a soup) in the reverse of
\* the host vertex order.
C12_WindingReversed ==
    SCGot =>
        \A s \in 1..Len(scShapes) :
            LET host == hostFacesOf(scIn, scShapes[s].prims, 1)
            IN /\ Len(scShapes[s].faceCounts) = Len(host)
               /\ Len(scShapes[s].indices) = sumSeq(scShapes[s].faceCounts, Len(host))
               /\ \A f \in 1..Len(host) :
                     /\ scShapes[s].faceCounts[f] = Len(host[f])
                     /\ \A k \in 1..Len(host[f]) :
                           shapeFace(scShapes[s], f)[k] = host[f][Len(host[f]) + 1 - k]

\* C12 witness: a polygon with a hole became two reversed faces and the plain
\* polygon on points 0, 1, 2, ... became the face ..., 2, 1, 0
C12_Witness ==
    /\ SCGot
    /\ Len(scIn.prims) = 2
    /\ scIn.cls = "own"
    /\ scIn.prims[1].type = "poly"
    /\ scIn.prims[1].face.kind = "bridged"
    /\ Len(scIn.prims[1].face.holes) = 1
    /\ ~getHasUB(scIn)
    /\ Len(scShapes[1].faceCounts) = 2
    /\ scIn.prims[2] = [type |-> "poly",
                        face |-> [kind |-> "free", pts |-> Iota(0, MinRingSize), bridge |-> {}]]
    /\ scShapes[2].indices = Reverse(Iota(0, MinRingSize))

\* the initial shape of the partition that primitive i belongs to
shapeOfPrim(i) ==
    scShapes[CHOOSE k \in 1..Len(scShapes) : scShapes[k].key = classOf(scIn, i)]

\* C13: after put, with override-seed enabled every primitive carries the
\* node's seed, whatever seed was derived for its partition; with it disabled
\* every primitive carries the seed registered for its own partition.
C13_OverrideSeedWins ==
    scPc = "put" =>
        /\ Len(scOut) = Len(scIn.prims)
        /\ \A i \in 1..Len(scIn.prims) :
              scOut[i] = IF scIn.override THEN scIn.nodeSeed ELSE shapeOfPrim(i).seed

\* C13 witness: two partitions with centroid-hash seeds different from the
\* node's seed and from each other, and both primitives end with the node's
\* seed
C13_Witness ==
    /\ scPc = "put"
    /\ scIn.override
    /\ scIn.seedKind = "none"
    /\ Len(scShapes) = 2
    /\ \A k \in 1..2 : scShapes[k].seed # scIn.nodeSeed
    /\ scShapes[1].seed # scShapes[2].seed
    /\ \A i \in 1..Len(scIn.prims) : scOut[i] = scIn.nodeSeed

\* C14: with an integer random-seed primitive attribute on the detail, the
\* seed registered for a partition is the attribute's value on the
\* partition's first primitive; without one it is the centroid hash.
C14_ExplicitSeedUsed ==
    SCGot =>
        \A s \in 1..Len(scShapes) :
            scShapes[s].seed =
                IF scIn.seedKind = "int32"
                THEN seedAttrValue(partitionPrims(scIn, scShapes[s].key)[1])
                ELSE centroidSeed(scShapes[s])

\* C14 witness: a partition of two primitives got the attribute value of its
\* first primitive, which differs from the centroid hash
C14_Witness ==
    /\ SCGot
    /\ scIn.seedKind = "int32"
    /\ scIn.cls = "one"
    /\ Len(scIn.prims) = 2
    /\ scShapes[1].seed = seedAttrValue(1)
    /\ scShapes[1].seed # centroidSeed(scShapes[1])
    /\ scShapes[1].seed # seedAttrValue(2)

\* the holes array that the primitives prims[k..] add when the face-count
\* array holds nFaces entries: the face index of every ring of a polygon and
\* one delimiter after them, nothing for the polygons of a soup
RECURSIVE expectedHoles(_, _, _, _)
expectedHoles(in, prims, k, nFaces) ==
    IF k > Len(prims) THEN <<>>
    ELSE LET n == Len(hostFaces(in, prims[k]))
         IN (IF in.prims[prims[k]].type = "poly"
             THEN [r \in 1..(n + 1) |-> IF r <= n THEN nFaces + r - 1 ELSE 0 - 1]
             ELSE <<>>)
                \o expectedHoles(in, prims, k + 1, nFaces + n)

\* C22: every polygon primitive adds to the holes array one entry per ring,
\* the index of the ring's entry in the face-count array, and then exactly
\* one delimiter 0xFFFFFFFF; a polygon of a soup adds a face and no entry.
C22_HolesPerRingThenSentinel ==
    SCGot =>
        \A s \in 1..Len(scShapes) :
            /\ scShapes[s].holes = expectedHoles(scIn, scShapes[s].prims, 1, 0)
            /\ \A h \in 1..Len(scShapes[s].holes) :
                  scShapes[s].holes[h] # 0 - 1 =>
                      /\ scShapes[s].holes[h] >= 0
                      /\ scShapes[s].holes[h] < Len(scShapes[s].faceCounts)

\* C22 witness: a polygon with a hole, then a plain polygon in one
\* partition: the holes array names the two rings, a delimiter, the third
\* face and its delimiter
C22_Witness ==
    /\ SCGot
    /\ ~getHasUB(scIn)
    /\ scIn.cls = "one"
    /\ Len(scIn.prims) = 2
    /\ scIn.prims[1].type = "poly"
    /\ Len(ringsOf(scIn.prims[1].face)) = 2
    /\ scIn.prims[2].type = "poly"
    /\ scShapes[1].holes = <<0, 1, 0 - 1, 2, 0 - 1>>
    /\ Len(scShapes[1].faceCounts) = 3

\* C22 happens for a soup as well: its polygons are faces without an entry
\* in the holes array
C22_SoupWitness ==
    /\ SCGot
    /\ scIn.cls = "one"
    /\ Len(scIn.prims) = 2
    /\ scIn.prims[1].type = "soup"
    /\ scIn.prims[2].type = "poly"
    /\ scShapes[1].holes = <<Len(scIn.prims[1].polys), 0 - 1>>

\* the primitives of a partition that get converts
supportedPrims(in, prims) ==
    SelectSeq(prims, LAMBDA i : in.prims[i].type \in {"poly", "soup"})

unsupportedPrims(in) == {i \in 1..Len(in.prims) : in.prims[i].type \notin {"poly", "soup"}}

\* C23 as stated: a primitive of an unsupported type is in the primitive
\* list of no initial shape, and put does not write to it
C23_SkippedAndUnregistered ==
    SCGot =>
        \A i \in unsupportedPrims(scIn) :
            \A s \in 1..Len(scShapes) : i \notin Range(scShapes[s].prims)

\* C23: a primitive of an unsupported type adds no faces, indices, holes or
\* UVs to the initial shape of its partition, but it stays in the primitive
\* list registered for the partition, and put writes the seed to it.
C23_SkippedButRegistered ==
    SCGot =>
        /\ \A s \in 1..Len(scShapes) :
              /\ scShapes[s].prims = partitionPrims(scIn, scShapes[s].key)
              /\ Range(scShapes[s].prims) \cap unsupportedPrims(scIn) # {} =>
                    LET ch == convertPrims(newConversionHelper, scIn,
                                           supportedPrims(scIn, scShapes[s].prims), 1)
                    IN /\ scShapes[s].indices = ch.indices
                       /\ scShapes[s].faceCounts = ch.faceCounts
                       /\ scShapes[s].holes = ch.holes
                       /\ scShapes[s].uvSets = ch.uvSets
        /\ \A i \in unsupportedPrims(scIn) :
              /\ \E s \in 1..Len(scShapes) : i \in Range(scShapes[s].prims)
              /\ scPc = "put" =>
                    scOut[i] = IF scIn.override THEN scIn.nodeSeed ELSE shapeOfPrim(i).seed

\* C23 witness: a polygon and an unsupported primitive share a partition;
\* the shape has the one face of the polygon, lists both primitives, and put
\* wrote the partition's seed to the unsupported one
C23_Witness ==
    /\ scPc = "put"
    /\ scIn.cls = "one"
    /\ ~scIn.override
    /\ Len(scIn.prims) = 2
    /\ scIn.prims[1].type = "poly"
    /\ scIn.prims[1].face.kind = "free"
    /\ scIn.prims[2].type = "other"
    /\ Len(scShapes) = 1
    /\ Len(scShapes[1].faceCounts) = 1
    /\ scShapes[1].prims = <<1, 2>>
    /\ scOut[2] = scShapes[1].seed

\* C29: in every initial shape the face counts add up to the number of
\* position indices, and every bound UV channel has as many UV indices as
\* there are position indices, as many UV pairs as UV indices, and only
\* indices below that number.
C29_ArraysConsistent ==
    SCGot =>
        \A s \in 1..Len(scShapes) :
            LET n == Len(scShapes[s].indices)
            IN /\ sumSeq(scShapes[s].faceCounts, Len(scShapes[s].faceCounts)) = n
               /\ \A u \in scIn.uvValid :
                     /\ Len(scShapes[s].uvSets[u].idx) = n
                     /\ Len(scShapes[s].uvSets[u].uvs) = 2 * n
                     /\ \A k \in 1..n :
                           /\ scShapes[s].uvSets[u].idx[k] >= 0
                           /\ scShapes[s].uvSets[u].idx[k] < n

\* C29 witness: a polygon with a hole and a soup in one partition, with a
\* bound UV channel that has one index and one pair per position index
C29_Witness ==
    /\ SCGot
    /\ ~getHasUB(scIn)
    /\ scIn.cls = "one"
    /\ Len(scIn.prims) = 2
    /\ scIn.prims[1].type = "poly"
    /\ Len(ringsOf(scIn.prims[1].face)) = 2
    /\ scIn.prims[2].type = "soup"
    /\ 0 \in scIn.uvValid
    /\ Len(scShapes[1].indices) > 2 * MinRingSize
    /\ Len(scShapes[1].uvSets[0].idx) = Len(scShapes[1].indices)

-----------------------------------------------------------------------------
(* HoudiniEncoder.cpp: detail::serializeGeometry                           *)
(*                                                                         *)
(* A mesh is [verts, norms, faces, uvSets]: verts and norms are flat       *)
(* coordinate arrays, faces[f] = [vtx, nrm, holes] holds the face's vertex *)
(* indices, normal indices and hole face indices, and uvSets[k] =          *)
(* [uvs, counts, idx] holds the flat uv coordinates, the per-face uv       *)
(* counts and the per-face uv indices of uv set k-1.  A material maps a    *)
(* shader key to its texture array, kept as the validity of each texture.  *)

\* the most uv sets a mesh of the checked inputs carries
MaxSGUVSets == 2

TextureKeys == {"diffuseMap", "bumpMap", "specularMap", "opacityMap", "normalMap",
                "emissiveMap", "occlusionMap", "roughnessMap", "metallicMap"}

\* shader key | idx | uv set (PRT_VERSION_MAJOR > 1)
TEXTURE_UV_MAPPINGS ==
    << [key |-> "diffuseMap",   index |-> 0, uvSet |-> 0],
       [key |-> "bumpMap",      index |-> 0, uvSet |-> 1],
       [key |-> "diffuseMap",   index |-> 1, uvSet |-> 2],
       [key |-> "specularMap",  index |-> 0, uvSet |-> 3],
       [key |-> "opacityMap",   index |-> 0, uvSet |-> 4],
       [key |-> "normalMap",    index |-> 0, uvSet |-> 5],
       [key |-> "emissiveMap",  index |-> 0, uvSet |-> 6],
       [key |-> "occlusionMap", index |-> 0, uvSet |-> 7],
       [key |-> "roughnessMap", index |-> 0, uvSet |-> 8],
       [key |-> "metallicMap",  index |-> 0, uvSet |-> 9] >>

\* a variant that takes every texture that is present, valid or not
validTexture_present(mat, t) ==
    LET ta == mat[t.key] IN Len(ta) > t.index

\* ta.size() > t.index && ta[t.index]->isValid()
validTexture(mat, t) ==
    LET ta == mat[t.key] IN Len(ta) > t.index /\ ta[t.index + 1]

\* the loop of scanValidTextures from table entry i on
RECURSIVE scanFrom(_, _, _)
scanFrom(mat, i, highestUVSet) ==
    IF i > Len(TEXTURE_UV_MAPPINGS) THEN highestUVSet
    ELSE LET t == TEXTURE_UV_MAPPINGS[i] IN
         scanFrom(mat, i + 1,
                  IF validTexture(mat, t) THEN Max(highestUVSet, t.uvSet)
                  ELSE highestUVSet)

\* the highest required uv set (where a valid texture is present), plus one
scanValidTextures(mat) ==
    LET highestUVSet == scanFrom(mat, 1, -1) IN
    IF highestUVSet < 0 THEN 0 ELSE highestUVSet + 1

\* the meshes of all geometries in iteration order, each with its material
RECURSIVE meshesFrom(_, _, _)
meshesFrom(geometries, materials, g) ==
    IF g > Len(geometries) THEN <<>>
    ELSE [mi \in 1..Len(geometries[g]) |->
             [mesh |-> geometries[g][mi], mat |-> materials[g][mi]]]
         \o meshesFrom(geometries, materials, g + 1)

meshesOf(geometries, materials) == meshesFrom(geometries, materials, 1)

getFaceCount(mesh) == Len(mesh.faces)

getUVSetsCount(mesh) == Len(mesh.uvSets)

\* PASS 1: maxNumUVSets after the first n meshes
RECURSIVE scanMeshes(_, _)
scanMeshes(ms, n) ==
    IF n = 0 THEN 0
    ELSE Max(scanMeshes(ms, n - 1),
             Max(getUVSetsCount(ms[n].mesh), scanValidTextures(ms[n].mat)))

maxNumUVSetsOf(geometries, materials) ==
    LET ms == meshesOf(geometries, materials) IN scanMeshes(ms, Len(ms))

\* SerializedGeometry(numCoords, ..., uvSets): one uv array, count array and
\* index array per uv set, all empty
newSerializedGeometry(uvSets) ==
    [coords |-> <<>>, normals |-> <<>>, counts |-> <<>>,
     holeCounts |-> <<>>, holeIndices |-> <<>>,
     vertexIndices |-> <<>>, normalIndices |-> <<>>,
     uvs |-> [c \in 1..uvSets |-> <<>>],
     uvCounts |-> [c \in 1..uvSets |-> <<>>],
     uvIndices |-> [c \in 1..uvSets |-> <<>>]]

\* a variant without the copy of uv set 0: a missing set stays empty
uvSource_noBackfill(mesh, uvSet) ==
    LET numUVSets == getUVSetsCount(mesh)
        own == uvSet < numUVSets
    IN  [uvs    |-> IF own THEN mesh.uvSets[uvSet + 1].uvs ELSE <<>>,
         counts |-> IF own THEN mesh.uvSets[uvSet + 1].counts
                    ELSE [f \in 1..getFaceCount(mesh) |-> 0],
         idx    |-> IF own THEN mesh.uvSets[uvSet + 1].idx
                    ELSE [f \in 1..getFaceCount(mesh) |-> <<>>]]

\* what a mesh appends to channel uvSet (0-based): its own uv set, or uv set 0
\* when the set is missing or empty, or zero counts when it has no uv set
uvSource(mesh, uvSet) ==
    LET numUVSets == getUVSetsCount(mesh)
        uvs0 == IF numUVSets > 0 THEN mesh.uvSets[1].uvs ELSE <<>>
        faceUVCounts0 == IF numUVSets > 0 THEN mesh.uvSets[1].counts
                         ELSE [f \in 1..getFaceCount(mesh) |-> 0]
        faceUVIdx0 == IF numUVSets > 0 THEN mesh.uvSets[1].idx
                      ELSE [f \in 1..getFaceCount(mesh) |-> <<>>]
        uvs == IF uvSet < numUVSets THEN mesh.uvSets[uvSet + 1].uvs ELSE <<>>
        own == uvSet < numUVSets /\ uvs # <<>>
    IN  [uvs    |-> IF uvs = <<>> THEN uvs0 ELSE uvs,
         counts |-> IF own THEN mesh.uvSets[uvSet + 1].counts ELSE faceUVCounts0,
         idx    |-> IF own THEN mesh.uvSets[uvSet + 1].idx ELSE faceUVIdx0]

\* a variant that keeps the winding of the uv indices
faceUVIndices_forward(base, faceUVIdx, faceUVCnt) ==
    [vi \in 1..faceUVCnt |-> base + faceUVIdx[vi]]

\* the uv indices of one face: uvIndexBase + faceUVIdx[faceUVCnt - vi - 1]
faceUVIndices(base, faceUVIdx, faceUVCnt) ==
    [vi \in 1..faceUVCnt |-> base + faceUVIdx[faceUVCnt - vi + 1]]

\* the uv indices of faces fi.. of one mesh in one channel
RECURSIVE meshUVIndices(_, _, _)
meshUVIndices(base, src, fi) ==
    IF fi > Len(src.counts) THEN <<>>
    ELSE faceUVIndices(base, src.idx[fi], src.counts[fi])
         \o meshUVIndices(base, src, fi + 1)

\* vertexIndexBase + vtxIdx[viReversed] for the faces fi.. of a mesh
RECURSIVE meshVertexIndices(_, _, _)
meshVertexIndices(base, mesh, fi) ==
    IF fi > getFaceCount(mesh) THEN <<>>
    ELSE Reverse([vi \in 1..Len(mesh.faces[fi].vtx) |-> base + mesh.faces[fi].vtx[vi]])
         \o meshVertexIndices(base, mesh, fi + 1)

\* normalIndexBase + nrmIdx[viReversed] where nrmCnt > viReversed
RECURSIVE meshNormalIndices(_, _, _)
meshNormalIndices(base, mesh, fi) ==
    IF fi > getFaceCount(mesh) THEN <<>>
    ELSE LET f == mesh.faces[fi]
             vtxCnt == Len(f.vtx)
             kept == Min(vtxCnt, Len(f.nrm))
         IN  [vi \in 1..kept |-> base + f.nrm[kept - vi + 1]]
             \o meshNormalIndices(base, mesh, fi + 1)

\* holesIndices[hi] + faceIndexBase for the faces fi.. of a mesh
RECURSIVE meshHoleIndices(_, _, _)
meshHoleIndices(base, mesh, fi) ==
    IF fi > getFaceCount(mesh) THEN <<>>
    ELSE [hi \in 1..Len(mesh.faces[fi].holes) |-> mesh.faces[fi].holes[hi] + base]
         \o meshHoleIndices(base, mesh, fi + 1)

\* the index bases before the first mesh
newBases(maxNumUVSets) ==
    [vertex |-> 0, normal |-> 0, face |-> 0, uv |-> [c \in 1..maxNumUVSets |-> 0]]

\* PASS 2, one mesh: what the body of the mesh loop appends to sg
copyMesh(sg, bases, mesh) ==
    LET chans == 1..Len(sg.uvs)
        src == [c \in chans |-> uvSource(mesh, c - 1)]
    IN  [sg EXCEPT
           !.coords = @ \o mesh.verts,
           !.normals = @ \o mesh.norms,
           !.uvs = [c \in chans |-> @[c] \o src[c].uvs],
           !.uvCounts = [c \in chans |-> @[c] \o src[c].counts],
           !.uvIndices = [c \in chans |-> @[c] \o meshUVIndices(bases.uv[c], src[c], 1)],
           !.counts = @ \o [fi \in 1..getFaceCount(mesh) |-> Len(mesh.faces[fi].vtx)],
           !.vertexIndices = @ \o meshVertexIndices(bases.vertex, mesh, 1),
           !.normalIndices = @ \o meshNormalIndices(bases.normal, mesh, 1),
           !.holeCounts = @ \o [fi \in 1..getFaceCount(mesh) |-> Len(mesh.faces[fi].holes)],
           !.holeIndices = @ \o meshHoleIndices(bases.face, mesh, 1)]

\* a variant that advances the uv base by the number of coordinates
nextBases_coords(sg, bases, mesh) ==
    [vertex |-> bases.vertex + (Len(mesh.verts) \div 3),
     normal |-> bases.normal + (Len(mesh.norms) \div 3),
     face   |-> bases.face + getFaceCount(mesh),
     uv     |-> [c \in 1..Len(sg.uvs) |->
                    bases.uv[c] + Len(uvSource(mesh, c - 1).uvs)]]

\* the index bases a mesh leaves for the next one
nextBases(sg, bases, mesh) ==
    [vertex |-> bases.vertex + (Len(mesh.verts) \div 3),
     normal |-> bases.normal + (Len(mesh.norms) \div 3),
     face   |-> bases.face + getFaceCount(mesh),
     uv     |-> [c \in 1..Len(sg.uvs) |->
                    bases.uv[c] + (Len(uvSource(mesh, c - 1).uvs) \div 2)]]

\* the index bases in front of mesh number n
RECURSIVE basesBefore(_, _, _)
basesBefore(sg, ms, n) ==
    IF n <= 1 THEN newBases(Len(sg.uvs))
    ELSE nextBases(sg, basesBefore(sg, ms, n - 1), ms[n - 1].mesh)

\* PASS 2 over the first n meshes
RECURSIVE copyMeshes(_, _, _)
copyMeshes(sg, ms, n) ==
    IF n = 0 THEN sg
    ELSE copyMesh(copyMeshes(sg, ms, n - 1), basesBefore(sg, ms, n), ms[n].mesh)

serializeGeometry(geometries, materials) ==
    LET ms == meshesOf(geometries, materials)
        sg == newSerializedGeometry(maxNumUVSetsOf(geometries, materials))
    IN  copyMeshes(sg, ms, Len(ms))

-----------------------------------------------------------------------------
(* SpecSG: one serializeGeometry call on chosen instances                  *)

SGShapes == {"tri", "two"}

\* "tri": one triangle; "two": a quad with the second face as its hole, and a
\* triangle without vertex normals
sgFaces(shape) ==
    IF shape = "tri"
    THEN << [vtx |-> <<0, 1, 2>>, nrm |-> <<0, 1, 2>>, holes |-> <<>>] >>
    ELSE << [vtx |-> <<0, 1, 2, 3>>, nrm |-> <<0, 1, 2, 3>>, holes |-> <<1>>],
            [vtx |-> <<4, 5, 6>>, nrm |-> <<>>, holes |-> <<>>] >>

sgPointCount(shape) == IF shape = "tri" THEN 3 ELSE 7

SGUVKinds == {"full", "empty"}

\* uv set k of a mesh: "full" gives the first face one uv per vertex (the
\* second face of "two" has none), "empty" is a set without coordinates
sgUVSet(shape, kind, k) ==
    LET faces == sgFaces(shape)
        n == Len(faces[1].vtx)
    IN  IF kind = "full"
        THEN [uvs    |-> [i \in 1..(2 * n) |-> 10 * k + i],
              counts |-> [f \in 1..Len(faces) |-> IF f = 1 THEN n ELSE 0],
              idx    |-> [f \in 1..Len(faces) |->
                             IF f = 1 THEN Rotate(faces[1].vtx, k) ELSE <<>>]]
        ELSE [uvs    |-> <<>>,
              counts |-> [f \in 1..Len(faces) |-> 0],
              idx    |-> [f \in 1..Len(faces) |-> <<>>]]

sgMesh(shape, kinds) ==
    [verts  |-> [i \in 1..(3 * sgPointCount(shape)) |-> i],
     norms  |-> [i \in 1..(3 * Len(sgFaces(shape)[1].vtx)) |-> 100 + i],
     faces  |-> sgFaces(shape),
     uvSets |-> [k \in 1..Len(kinds) |-> sgUVSet(shape, kinds[k], k - 1)]]

SGMeshes ==
    {sgMesh(shape, kinds) :
        shape \in SGShapes,
        kinds \in UNION {[1..n -> SGUVKinds] : n \in 0..MaxSGUVSets}}

noTextures == [k \in TextureKeys |-> <<>>]

\* materials: no texture; a valid colormap; an invalid colormap with a valid
\* dirtmap; an invalid bumpmap; a valid bumpmap
SGMaterials ==
    {noTextures,
     [noTextures EXCEPT !["diffuseMap"] = <<TRUE>>],
     [noTextures EXCEPT !["diffuseMap"] = <<FALSE, TRUE>>],
     [noTextures EXCEPT !["bumpMap"] = <<FALSE>>],
     [noTextures EXCEPT !["bumpMap"] = <<TRUE>>]}

\* one instance with one mesh, two instances, or one instance with two meshes
SGInputs ==
    {[geometries |-> << <<m>> >>, materials |-> << <<k>> >>] :
        m \in SGMeshes, k \in SGMaterials}
    \cup
    {[geometries |-> << <<m1>>, <<m2>> >>, materials |-> << <<k1>>, <<k2>> >>] :
        m1 \in SGMeshes, m2 \in SGMeshes, k1 \in SGMaterials, k2 \in SGMaterials}
    \cup
    {[geometries |-> << <<m1, m2>> >>, materials |-> << <<k1, k2>> >>] :
        m1 \in SGMeshes, m2 \in SGMeshes, k1 \in SGMaterials, k2 \in SGMaterials}

SGInit ==
    /\ sgIn \in SGInputs
    /\ sgPc = "in"
    /\ sgOut = <<>>
    /\ MoreUnused
    /\ HolesUnused
    /\ RMUnused
    /\ MCUnused
    /\ SCUnused
    /\ CPUnused
    /\ EncUnused
    /\ FNUnused

\* PASS 1: scan
SGScan ==
    /\ sgPc = "in"
    /\ sgOut' = newSerializedGeometry(maxNumUVSetsOf(sgIn.geometries, sgIn.materials))
    /\ sgPc' = "scanned"
    /\ UNCHANGED <<sgIn, sgOthers>>

\* PASS 2: copy
SGCopy ==
    /\ sgPc = "scanned"
    /\ sgOut' = serializeGeometry(sgIn.geometries, sgIn.materials)
    /\ sgPc' = "copied"
    /\ UNCHANGED <<sgIn, sgOthers>>

SGNext == SGScan \/ SGCopy

SpecSG == SGInit /\ [][SGNext]_vars

-----------------------------------------------------------------------------
(* Properties of serializeGeometry (SpecSG)                                *)

SGMeshList == meshesOf(sgIn.geometries, sgIn.materials)

\* the uv set a mesh holds for channel c: its own where it has a non-empty
\* one, else its uv set 0, else nothing
contributedSet(mesh, c) ==
    IF c < Len(mesh.uvSets) /\ mesh.uvSets[c + 1].uvs # <<>> THEN mesh.uvSets[c + 1]
    ELSE IF Len(mesh.uvSets) > 0 THEN mesh.uvSets[1]
    ELSE [uvs |-> <<>>, counts |-> [f \in 1..Len(mesh.faces) |-> 0],
          idx |-> [f \in 1..Len(mesh.faces) |-> <<>>]]

\* the uv indices of a uv set face after face, each face in reversed winding
RECURSIVE flatReversed(_, _)
flatReversed(set, f) ==
    IF f > Len(set.counts) THEN <<>>
    ELSE Reverse(SubSeq(set.idx[f], 1, set.counts[f])) \o flatReversed(set, f + 1)

\* uv pairs, faces and uv indices the meshes before number n put into channel c
RECURSIVE pairsBefore(_, _)
pairsBefore(n, c) ==
    IF n <= 1 THEN 0
    ELSE pairsBefore(n - 1, c)
         + (Len(contributedSet(SGMeshList[n - 1].mesh, c).uvs) \div 2)

RECURSIVE facesBefore(_)
facesBefore(n) ==
    IF n <= 1 THEN 0 ELSE facesBefore(n - 1) + Len(SGMeshList[n - 1].mesh.faces)

RECURSIVE indicesBefore(_, _)
indicesBefore(n, c) ==
    IF n <= 1 THEN 0
    ELSE indicesBefore(n - 1, c)
         + Len(flatReversed(contributedSet(SGMeshList[n - 1].mesh, c), 1))

\* what mesh number n put into channel c of the output
coordsOfMesh(n, c) ==
    SubSeq(sgOut.uvs[c + 1], 2 * pairsBefore(n, c) + 1,
           2 * pairsBefore(n, c) + Len(contributedSet(SGMeshList[n].mesh, c).uvs))

countsOfMesh(n, c) ==
    SubSeq(sgOut.uvCounts[c + 1], facesBefore(n) + 1,
           facesBefore(n) + Len(SGMeshList[n].mesh.faces))

indicesOfMesh(n, c) ==
    SubSeq(sgOut.uvIndices[c + 1], indicesBefore(n, c) + 1,
           indicesBefore(n, c)
             + Len(flatReversed(contributedSet(SGMeshList[n].mesh, c), 1)))

offsetBy(base, s) == [i \in 1..Len(s) |-> base + s[i]]

\* mesh number n has a uv set 0 but no uv set c
missesChannel(n, c) ==
    LET k == Len(SGMeshList[n].mesh.uvSets) IN 1 <= k /\ k <= c

\* C15: after serializeGeometry, a mesh with fewer uv sets than there are
\* channels has, in every channel it misses, a copy of its uv set 0 (the
\* coordinates, the per-face counts, and the indices of uv set 0); and in
\* every channel the indices of a mesh are its own indices plus the number of
\* uv pairs the meshes before it put into that channel.
C15_BackfillAndOffsets ==
    sgPc = "copied" =>
        \A n \in 1..Len(SGMeshList), c \in 0..(Len(sgOut.uvs) - 1) :
            LET mesh == SGMeshList[n].mesh IN
            /\ Len(sgOut.uvs[c + 1]) = 2 * pairsBefore(Len(SGMeshList) + 1, c)
            /\ Len(sgOut.uvCounts[c + 1]) = facesBefore(Len(SGMeshList) + 1)
            /\ Len(sgOut.uvIndices[c + 1]) = indicesBefore(Len(SGMeshList) + 1, c)
            /\ missesChannel(n, c) =>
                  /\ coordsOfMesh(n, c) = mesh.uvSets[1].uvs
                  /\ coordsOfMesh(n, c) = coordsOfMesh(n, 0)
                  /\ countsOfMesh(n, c) = mesh.uvSets[1].counts
                  /\ countsOfMesh(n, c) = countsOfMesh(n, 0)
                  /\ indicesOfMesh(n, c)
                       = offsetBy(pairsBefore(n, c), flatReversed(mesh.uvSets[1], 1))
            /\ indicesOfMesh(n, c)
                 = offsetBy(pairsBefore(n, c), flatReversed(contributedSet(mesh, c), 1))

\* C15 happens: mesh 1 has uv set 0 only, mesh 2 has uv sets 0 and 1, two
\* channels come out, channel 1 holds mesh 1's uv set 0, and mesh 2's indices
\* are offset in both channels
C15_Witness ==
    /\ sgPc = "copied"
    /\ Len(SGMeshList) = 2
    /\ Len(sgOut.uvs) = 2
    /\ Len(SGMeshList[1].mesh.uvSets) = 1
    /\ Len(SGMeshList[2].mesh.uvSets) = 2
    /\ SGMeshList[1].mesh.uvSets[1].uvs # <<>>
    /\ SGMeshList[2].mesh.uvSets[2].uvs # <<>>
    /\ missesChannel(1, 1)
    /\ coordsOfMesh(1, 1) = SGMeshList[1].mesh.uvSets[1].uvs
    /\ pairsBefore(2, 0) > 0
    /\ pairsBefore(2, 1) > 0
    /\ indicesOfMesh(2, 1) # flatReversed(SGMeshList[2].mesh.uvSets[2], 1)

\* the largest element of a non-empty set of numbers
maxOfSet(S) == CHOOSE x \in S : \A y \in S : y <= x

\* the uv sets of the table whose texture slot holds a valid texture
validUVSets(mat) ==
    {TEXTURE_UV_MAPPINGS[i].uvSet : i \in
        {j \in 1..Len(TEXTURE_UV_MAPPINGS) :
            LET t == TEXTURE_UV_MAPPINGS[j] IN
            /\ Len(mat[t.key]) >= t.index + 1
            /\ mat[t.key][t.index + 1] = TRUE}}

requiredChannels(m) ==
    Max(Len(m.mesh.uvSets),
        IF validUVSets(m.mat) = {} THEN 0 ELSE 1 + maxOfSet(validUVSets(m.mat)))

\* C16: the number of uv channels of the output is the maximum over all
\* meshes of the larger of the mesh's uv set count and one more than the
\* highest uv set of the table whose slot holds a valid texture in the
\* mesh's material; absent and invalid textures do not count.
C16_ChannelCount ==
    sgPc \in {"scanned", "copied"} =>
        /\ Len(sgOut.uvs) = maxOfSet({requiredChannels(SGMeshList[n]) : n \in 1..Len(SGMeshList)})
        /\ Len(sgOut.uvCounts) = Len(sgOut.uvs)
        /\ Len(sgOut.uvIndices) = Len(sgOut.uvs)

\* C16 happens: a valid dirtmap behind an invalid colormap raises the count
\* to three although no mesh has that many uv sets, and another material
\* holds only an invalid texture
C16_Witness ==
    /\ sgPc = "copied"
    /\ Len(sgOut.uvs) = 3
    /\ Len(SGMeshList) = 2
    /\ \A n \in 1..2 : Len(SGMeshList[n].mesh.uvSets) < 3
    /\ SGMeshList[1].mat["diffuseMap"] = <<FALSE, TRUE>>
    /\ SGMeshList[2].mat["bumpMap"] = <<FALSE>>

\* C28: every uv channel of the output has one per-face count for every
\* serialized face, in the order of the faces (zeros for the faces of a mesh
\* without uv sets), as many indices as its counts add up to, and only
\* indices below its number of uv pairs.
C28_ChannelsAlignedWithFaces ==
    sgPc = "copied" =>
        \A c \in 1..Len(sgOut.uvs) :
            /\ Len(sgOut.uvCounts[c]) = Len(sgOut.counts)
            /\ \A n \in 1..Len(SGMeshList) :
                  /\ Len(SGMeshList[n].mesh.faces) =
                        facesBefore(n + 1) - facesBefore(n)
                  /\ \A f \in 1..Len(SGMeshList[n].mesh.faces) :
                        /\ sgOut.counts[facesBefore(n) + f]
                              = Len(SGMeshList[n].mesh.faces[f].vtx)
                        /\ Len(SGMeshList[n].mesh.uvSets) = 0
                              => sgOut.uvCounts[c][facesBefore(n) + f] = 0
            /\ Len(sgOut.uvIndices[c]) = sumSeq(sgOut.uvCounts[c], Len(sgOut.uvCounts[c]))
            /\ \A k \in 1..Len(sgOut.uvIndices[c]) :
                  /\ sgOut.uvIndices[c][k] >= 0
                  /\ sgOut.uvIndices[c][k] < Len(sgOut.uvs[c]) \div 2

\* C28 witness: a mesh without uv sets in front of a mesh with uv sets: the
\* channel starts with the zero count of the first mesh's face and its
\* indices are those of the second mesh
C28_Witness ==
    /\ sgPc = "copied"
    /\ Len(SGMeshList) = 2
    /\ Len(SGMeshList[1].mesh.uvSets) = 0
    /\ Len(SGMeshList[1].mesh.faces) = 1
    /\ Len(SGMeshList[2].mesh.uvSets) = 2
    /\ SGMeshList[2].mesh.uvSets[1].uvs # <<>>
    /\ Len(sgOut.uvs) = 2
    /\ Len(sgOut.counts) = 3
    /\ sgOut.uvCounts[1] = <<0, 4, 0>>
    /\ Len(sgOut.uvIndices[1]) = 4
    /\ Len(sgOut.uvs[1]) = 8

\* C28 happens behind a mesh with uv sets as well: the indices of the second
\* mesh start at the number of uv pairs of the first
C28_OffsetWitness ==
    /\ sgPc = "copied"
    /\ Len(SGMeshList) = 2
    /\ Len(sgOut.uvs) >= 1
    /\ sgOut.uvCounts[1] = <<3, 3>>
    /\ sgOut.uvIndices[1][4] >= 3
    /\ Len(sgOut.uvs[1]) = 12

-----------------------------------------------------------------------------
(* ModelConverter.cpp: the vertex normals and the texture-coordinate loops *)
(* of createPrimitives                                                     *)
(*                                                                         *)
(* cpIn = [counts, uvSets, chan, normals]: the vertex count of every face  *)
(* (one primitive is built per face), the number of uv sets, the arrays    *)
(* [uvs, uvCounts, uvIndices] of the uv set the loop is at, and the arrays *)
(* [nrm, normalIndices]; the arrays are drawn when the code reaches them.  *)

MaxCPFaces == 2
MaxCPUVSets == 2

\* vertex counts of the faces handed to add
CPVertexCounts == {3, 4}

\* per-face uv counts handed to add
CPUVCounts == {0, 3, 4}

\* what a read behind the end of psUVIndices yields
GarbageIndex == -1

NoChannel == [uvs |-> <<>>, uvCounts |-> <<>>, uvIndices |-> <<>>]

\* a uv set with the given per-face counts: one index per counted uv, and
\* enough coordinates for them
cpChannel(uvCounts) ==
    LET n == sumSeq(uvCounts, Len(uvCounts)) IN
    [uvs |-> [i \in 1..(2 * n) |-> i], uvCounts |-> uvCounts, uvIndices |-> Iota(0, n)]

\* the uv sets add may get for faceCount faces: empty ones included
CPChannels(faceCount) ==
    {NoChannel} \cup {cpChannel(c) : c \in [1..faceCount -> CPUVCounts]}

CPFaceCounts == UNION {[1..n -> CPVertexCounts] : n \in 1..MaxCPFaces}

\* psUVSSize > 0 && psUVIndicesSize > 0 && psUVCountsSize > 0
uvSetWritten(chan) ==
    Len(chan.uvs) > 0 /\ Len(chan.uvIndices) > 0 /\ Len(chan.uvCounts) > 0

\* the vertices the inner loop visits for primitive fi (1-based): the whole
\* vertex range of the primitive when its uv count is positive
visitedVertices(counts, chan, fi) ==
    IF chan.uvCounts[fi] > 0 THEN counts[fi] ELSE 0

\* psUVIndices[uvi] for the visited vertices of one primitive; a read behind
\* the end of the array yields GarbageIndex
readUVIndices(chan, uvi, n) ==
    [v \in 1..n |-> IF uvi + v <= Len(chan.uvIndices)
                    THEN chan.uvIndices[uvi + v] ELSE GarbageIndex]

\* some visited vertex reads behind the end of psUVIndices
readsBehindEnd(chan, uvi, n) == uvi + n > Len(chan.uvIndices)

\* the vertex normals add may get for vertexCount vertices: none, one normal
\* shared by all vertices, or one normal per vertex
CPNormalKinds == {"none", "shared", "perVertex"}

NoNormals == [nrm |-> <<>>, normalIndices |-> <<>>]

cpNormals(kind, vertexCount) ==
    CASE kind = "shared" ->
             [nrm |-> <<0, 0, 1>>, normalIndices |-> [v \in 1..vertexCount |-> 0]]
      [] kind = "perVertex" ->
             [nrm |-> [i \in 1..(3 * vertexCount) |-> i],
              normalIndices |-> Iota(0, vertexCount)]
      [] OTHER -> NoNormals

\* setVertexNormals(handle, marker, nrm, nrmSize, indices, indicesSize): for
\* every vertex of the marker's range the two assertions and the position
\* that is read
setVertexNormals(vertexCount, nrm, nrmSize, indices, indicesSize) ==
    [v \in 1..vertexCount |->
        LET vi == v - 1
            nrmIdx == IF vi < indicesSize THEN indices[vi + 1] ELSE GarbageIndex
            nrmPos == nrmIdx * 3
        IN [vi |-> vi, indexInRange |-> vi < indicesSize,
            nrmPos |-> nrmPos, nrmSize |-> nrmSize,
            posInRange |-> nrmPos + 2 < nrmSize,
            readInArray |-> nrmPos >= 0 /\ nrmPos + 2 < Len(nrm)]]

\* createPrimitives, "add vertex normals": the call passes vertexIndicesSize
\* where setVertexNormals expects nrmSize
addVertexNormals(counts, normals) ==
    LET vertexIndicesSize == sumSeq(counts, Len(counts))
        nrmSize == Len(normals.nrm)
    IN IF nrmSize > 0
       THEN setVertexNormals(vertexIndicesSize, normals.nrm, vertexIndicesSize,
                             normals.normalIndices, Len(normals.normalIndices))
       ELSE <<>>

\* an assertion of setVertexNormals fails
assertionFails(checks) ==
    \E k \in 1..Len(checks) : ~checks[k].indexInRange \/ ~checks[k].posInRange

-----------------------------------------------------------------------------
(* SpecCP: one createPrimitives call, uv set after uv set, face after face *)

CPInit ==
    /\ cpIn \in {[counts |-> c, uvSets |-> n, chan |-> NoChannel, normals |-> NoNormals] :
                    c \in CPFaceCounts, n \in 0..MaxCPUVSets}
    /\ cpPc = "in"
    /\ cpAt = [uvSet |-> 0, fi |-> 0, uvi |-> 0]
    /\ cpOut = <<>>
    /\ MoreUnused
    /\ HolesUnused
    /\ RMUnused
    /\ MCUnused
    /\ SCUnused
    /\ SGUnused
    /\ EncUnused
    /\ FNUnused

\* points and primitives are built (buildBlock), one primitive per face
CPBuildBlock ==
    /\ cpPc = "in"
    /\ cpPc' = "normals"
    /\ UNCHANGED <<cpIn, cpAt, cpOut, cpOthers>>

\* the vertex normals are set: a failing assertion aborts a build with
\* assertions and goes unnoticed in a build without them
CPSetNormals ==
    /\ cpPc = "normals"
    /\ \E kind \in CPNormalKinds :
          LET normals == cpNormals(kind, sumSeq(cpIn.counts, Len(cpIn.counts)))
              checks == addVertexNormals(cpIn.counts, normals)
          IN /\ cpIn' = [cpIn EXCEPT !.normals = normals]
             /\ cpOut' = checks
             /\ \/ cpPc' = "normalsSet"
                \/ assertionFails(checks) /\ cpPc' = "aborted"
    /\ UNCHANGED <<cpAt, cpOthers>>

\* on to the uv sets
CPStartSets ==
    /\ cpPc = "normalsSet"
    /\ cpPc' = "sets"
    /\ cpOut' = <<>>
    /\ UNCHANGED <<cpIn, cpAt, cpOthers>>

\* the uv-set loop reaches the next uv set: it is skipped when one of its
\* arrays is empty, else the face loop starts with fi = 0, uvi = 0
CPEnterSet ==
    /\ cpPc = "sets"
    /\ cpAt.uvSet < cpIn.uvSets
    /\ \E chan \in CPChannels(Len(cpIn.counts)) :
          /\ cpIn' = [cpIn EXCEPT !.chan = chan]
          /\ cpOut' = <<>>
          /\ IF uvSetWritten(chan)
             THEN /\ cpPc' = "faces"
                  /\ cpAt' = [cpAt EXCEPT !.fi = 0, !.uvi = 0]
             ELSE /\ cpPc' = "sets"
                  /\ cpAt' = [uvSet |-> cpAt.uvSet + 1, fi |-> 0, uvi |-> 0]
    /\ UNCHANGED cpOthers

\* one primitive of the face loop
CPFace ==
    /\ cpPc = "faces"
    /\ cpAt.fi < Len(cpIn.counts)
    /\ LET n == visitedVertices(cpIn.counts, cpIn.chan, cpAt.fi + 1) IN
       /\ cpOut' = Append(cpOut, readUVIndices(cpIn.chan, cpAt.uvi, n))
       /\ cpAt' = [cpAt EXCEPT !.fi = @ + 1, !.uvi = @ + n]
       /\ \/ cpPc' = "faces"
          \/ readsBehindEnd(cpIn.chan, cpAt.uvi, n) /\ cpPc' = "crashed"
    /\ UNCHANGED <<cpIn, cpOthers>>

\* the face loop is at its end: on to the next uv set
CPLeaveSet ==
    /\ cpPc = "faces"
    /\ cpAt.fi = Len(cpIn.counts)
    /\ cpPc' = "sets"
    /\ cpAt' = [cpAt EXCEPT !.uvSet = @ + 1]
    /\ UNCHANGED <<cpIn, cpOut, cpOthers>>

\* all uv sets are done
CPReturn ==
    /\ cpPc = "sets"
    /\ cpAt.uvSet = cpIn.uvSets
    /\ cpPc' = "done"
    /\ UNCHANGED <<cpIn, cpAt, cpOut, cpOthers>>

CPNext ==
    \/ CPBuildBlock
    \/ CPSetNormals
    \/ CPStartSets
    \/ CPEnterSet
    \/ CPFace
    \/ CPLeaveSet
    \/ CPReturn

SpecCP == CPInit /\ [][CPNext]_vars

-----------------------------------------------------------------------------
(* Properties of createPrimitives (SpecCP)                                 *)

\* C17 as stated: in a uv set that is written, every primitive handled so
\* far read exactly uvCounts[f] uv indices, a face with uv count 0 read none,
\* and after the last primitive the indices read are as many as the sum of
\* the per-face uv counts.
C17_ConsumesUVCount ==
    cpPc = "faces" =>
        /\ \A f \in 1..Len(cpOut) : Len(cpOut[f]) = cpIn.chan.uvCounts[f]
        /\ cpAt.fi = Len(cpIn.counts) =>
              cpAt.uvi = sumSeq(cpIn.chan.uvCounts, Len(cpIn.chan.uvCounts))

\* what the code does (C17): a primitive with a positive uv count reads one
\* uv index per vertex of the primitive, whatever the uv count is
C17_ConsumesVertexCount ==
    cpPc \in {"faces", "crashed"} =>
        \A f \in 1..Len(cpOut) :
            Len(cpOut[f]) = IF cpIn.chan.uvCounts[f] > 0 THEN cpIn.counts[f] ELSE 0

\* the stated and the actual behaviour differ: a quad with uv count 3
C17_Witness ==
    /\ cpPc = "faces"
    /\ cpIn.counts = <<4>>
    /\ cpIn.chan.uvCounts = <<3>>
    /\ cpOut = << <<0, 1, 2, GarbageIndex>> >>

\* C25 as stated: with well-formed normals both assertions of
\* setVertexNormals hold for every vertex, and the size the position is
\* compared with is the length of the normal coordinate array
C25_NormalAssertionsHold ==
    cpPc \in {"normalsSet", "aborted"} =>
        \A k \in 1..Len(cpOut) :
            /\ cpOut[k].indexInRange
            /\ cpOut[k].posInRange
            /\ cpOut[k].nrmSize = Len(cpIn.normals.nrm)

-----------------------------------------------------------------------------
(* HoudiniEncoder.cpp: HoudiniEncoder::encode                              *)
(*                                                                         *)
(* encIn = [emitAttrs, isIndex, isKeys, keyType]: the EO_EMIT_ATTRIBUTES   *)
(* option, the initial shape index, the keys of the initial shape's        *)
(* attribute map in getKeys order (or a null attribute map),               *)
(* and the type every attribute key has on the shapes.  A leaf shape is    *)
(* [id, keys, meshes]; encLog holds the HoudiniCallbacks calls in order.   *)

MaxLeaves == 2

\* attribute keys, in the order getKeys returns them
EncKeyOrder == <<"height", "name">>

EncKeys == Range(EncKeyOrder)

EncTypes == {"PT_STRING", "PT_FLOAT", "PT_BOOL", "PT_STRING_ARRAY",
             "PT_FLOAT_ARRAY", "PT_BOOL_ARRAY", "PT_INT"}

\* Attributable pointers: [null, keys]
NullAttributeMap == [null |-> TRUE, keys |-> <<>>]

\* the switch of forwardGenericAttributes: the callback a type goes to
callbackOf(type) ==
    CASE type = "PT_STRING"       -> "attrString"
      [] type = "PT_FLOAT"        -> "attrFloat"
      [] type = "PT_BOOL"         -> "attrBool"
      [] type = "PT_STRING_ARRAY" -> "attrStringArray"
      [] type = "PT_FLOAT_ARRAY"  -> "attrFloatArray"
      [] type = "PT_BOOL_ARRAY"   -> "attrBoolArray"
      [] OTHER                    -> "none"

\* forEachKey: the keys of an attributable, none for a null pointer
forEachKey(a) == IF a.null THEN <<>> ELSE a.keys

\* a variant that forwards every key of the initial shape, on the shape or not
forwardedKeys_all(isKeys, shape, keyType) ==
    SelectSeq(forEachKey(isKeys), LAMBDA key : callbackOf(keyType[key]) # "none")

\* the keys forwardGenericAttributes issues a callback for
forwardedKeys(isKeys, shape, keyType) ==
    SelectSeq(forEachKey(isKeys),
              LAMBDA key : key \in shape.keys /\ callbackOf(keyType[key]) # "none")

\* the callbacks forwardGenericAttributes issues for one leaf shape
forwardGenericAttributes(in, shape) ==
    LET keys == forwardedKeys(in.isKeys, shape, in.keyType) IN
    [i \in 1..Len(keys) |->
        [cb |-> callbackOf(in.keyType[keys[i]]), isIndex |-> in.isIndex,
         shapeID |-> shape.id, key |-> keys[i]]]

\* the geometry and the materials of the instance made from a leaf shape:
\* shape.meshes names the meshes of its geometry
instanceGeometry(shape) ==
    [m \in 1..Len(shape.meshes) |-> sgMesh(shape.meshes[m], <<"full">>)]

instanceMaterials(shape) == [m \in 1..Len(shape.meshes) |-> noTextures]

\* convertGeometry: faceRanges holds the first face of every mesh and, last,
\* the face count
RECURSIVE faceRangesOf(_, _)
faceRangesOf(ms, n) ==
    IF n = 0 THEN <<0>>
    ELSE LET before == faceRangesOf(ms, n - 1) IN
         Append(before, before[Len(before)] + getFaceCount(ms[n].mesh))

\* convertGeometry: the one add call made with the serialized instances
convertGeometry(in, leaves) ==
    LET geometries == [i \in 1..Len(leaves) |-> instanceGeometry(leaves[i])]
        materials == [i \in 1..Len(leaves) |-> instanceMaterials(leaves[i])]
        sg == serializeGeometry(geometries, materials)
        ms == meshesOf(geometries, materials)
    IN  [cb |-> "add", isIndex |-> in.isIndex,
         shapeIDs |-> [i \in 1..Len(leaves) |-> leaves[i].id],
         faceRanges |-> faceRangesOf(ms, Len(ms)),
         counts |-> sg.counts, uvSets |-> Len(sg.uvs)]

\* the attribute maps of the checked initial shapes: null, or some keys
EncAttributeMaps ==
    {NullAttributeMap}
    \cup {[null |-> FALSE, keys |-> SelectSeq(EncKeyOrder, LAMBDA key : key \in S)] :
             S \in SUBSET EncKeys}

-----------------------------------------------------------------------------
(* SpecEnc: one encode call                                                *)

EncInit ==
    /\ encIn \in [emitAttrs : BOOLEAN, isIndex : {0}, isKeys : EncAttributeMaps,
                  keyType : [EncKeys -> EncTypes]]
    /\ encPc = "leaves"
    /\ encLeaf = <<>>
    /\ encLog = <<>>
    /\ MoreUnused
    /\ HolesUnused
    /\ RMUnused
    /\ MCUnused
    /\ SCUnused
    /\ SGUnused
    /\ CPUnused
    /\ FNUnused

\* li->getNext() returns a leaf shape: it is added to the encode preparator
\* and, with emitAttrs, its generic attributes are forwarded
EncLeafShape ==
    /\ encPc = "leaves"
    /\ Len(encLeaf) < MaxLeaves
    /\ \E keys \in SUBSET EncKeys :
          LET shape == [id |-> Len(encLeaf) + 1, keys |-> keys, meshes |-> <<"tri">>] IN
          /\ encLeaf' = Append(encLeaf, shape)
          /\ encLog' = IF encIn.emitAttrs
                       THEN encLog \o forwardGenericAttributes(encIn, shape)
                       ELSE encLog
    /\ UNCHANGED <<encIn, encPc, encOthers>>

\* li->getNext() returns no shape: the instances are fetched and handed to
\* convertGeometry, which calls add
EncConvertGeometry ==
    /\ encPc = "leaves"
    /\ encLog' = Append(encLog, convertGeometry(encIn, encLeaf))
    /\ encPc' = "done"
    /\ UNCHANGED <<encIn, encLeaf, encOthers>>

EncNext == EncLeafShape \/ EncConvertGeometry

SpecEnc == EncInit /\ [][EncNext]_vars

-----------------------------------------------------------------------------
(* SpecCG: one convertGeometry call on a fetched instance list and the     *)
(* face-range loop of the ModelConverter::add it makes.  encLeaf holds the *)
(* instances, encIn.builders tells whether attribute callbacks filled      *)
(* mShapeAttributeBuilders, encLog holds the add call and then one entry   *)
(* per face range handled.                                                 *)

MaxInstances == 2

MaxInstanceMeshes == 2

\* the geometries an instance may have: no mesh, one mesh, several meshes
CGGeometries == UNION {[1..n -> SGShapes] : n \in 0..MaxInstanceMeshes}

CGInstanceLists ==
    UNION {{[i \in 1..n |-> [id |-> 10 + i, keys |-> {}, meshes |-> g[i]]] :
               g \in [1..n -> CGGeometries]} : n \in 1..MaxInstances}

\* primitives already in the output detail when add is called: none, or the
\* two of an earlier add call
CGPrimOffsets == {0, 2}

CGInit ==
    /\ encIn \in [isIndex : {0}, builders : BOOLEAN, primStartOffset : CGPrimOffsets]
    /\ encPc = "fetched"
    /\ encLeaf \in CGInstanceLists
    /\ encLog = <<>>
    /\ MoreUnused
    /\ HolesUnused
    /\ RMUnused
    /\ MCUnused
    /\ SCUnused
    /\ SGUnused
    /\ CPUnused
    /\ FNUnused

\* assert(shapeIDs.size() == faceRanges.size() - 1)
shapeIDsAssertion(call) == Len(call.shapeIDs) = Len(call.faceRanges) - 1

\* convertGeometry: the arrays are built and add is called; a failing
\* assertion aborts a build with assertions
CGConvertGeometry ==
    /\ encPc = "fetched"
    /\ LET call == convertGeometry(encIn, encLeaf) IN
       /\ encLog' = <<call>>
       /\ \/ encPc' = "add"
          \/ ~shapeIDsAssertion(call) /\ encPc' = "aborted"
    /\ UNCHANGED <<encIn, encLeaf, encOthers>>

\* ModelConverter::add, one iteration of the face-range loop: the face range,
\* which starts at the offset of the first primitive createPrimitives built,
\* and, with attribute builders present, shapeIDs[fri]; a read behind the
\* end of shapeIDs yields GarbageIndex
addFaceRange(call, builders, primStartOffset, fri) ==
    [cb |-> "range", fri |-> fri,
     rangeStart |-> primStartOffset + call.faceRanges[fri + 1],
     rangeSize |-> call.faceRanges[fri + 2] - call.faceRanges[fri + 1],
     read |-> builders,
     inBounds |-> fri < Len(call.shapeIDs),
     shapeID |-> IF builders /\ fri < Len(call.shapeIDs)
                 THEN call.shapeIDs[fri + 1] ELSE GarbageIndex]

CGAddRange ==
    /\ encPc = "add"
    /\ LET fri == Len(encLog) - 1
           range == addFaceRange(encLog[1], encIn.builders, encIn.primStartOffset, fri)
       IN /\ fri < Len(encLog[1].faceRanges) - 1
          /\ encLog' = Append(encLog, range)
          /\ \/ encPc' = "add"
             \/ range.read /\ ~range.inBounds /\ encPc' = "crashed"
    /\ UNCHANGED <<encIn, encLeaf, encOthers>>

\* the loop is at its end (or faceRangesSize <= 1): add returns
CGAddReturn ==
    /\ encPc = "add"
    /\ Len(encLog) - 1 >= Len(encLog[1].faceRanges) - 1
    /\ encPc' = "done"
    /\ UNCHANGED <<encIn, encLeaf, encLog, encOthers>>

CGNext == CGConvertGeometry \/ CGAddRange \/ CGAddReturn

SpecCG == CGInit /\ [][CGNext]_vars

-----------------------------------------------------------------------------
(* Properties of HoudiniEncoder::encode (SpecEnc)                          *)

AttrCallbacks == {"attrString", "attrFloat", "attrBool", "attrStringArray",
                  "attrFloatArray", "attrBoolArray"}

addCalls == {i \in 1..Len(encLog) : encLog[i].cb = "add"}

\* C18: within one encode call add is called once, when every leaf shape was
\* visited, and after every attribute callback; attribute callbacks are
\* issued only with emitAttributes, and only for keys that are on the initial
\* shape's attribute map and on the leaf shape.
C18_AttrsBeforeSingleAdd ==
    /\ encPc = "leaves" => addCalls = {}
    /\ encPc = "done" =>
          /\ addCalls = {Len(encLog)}
          /\ encLog[Len(encLog)].shapeIDs = [i \in 1..Len(encLeaf) |-> encLeaf[i].id]
    /\ \A i \in 1..Len(encLog) :
          encLog[i].cb # "add" =>
              /\ encLog[i].cb \in AttrCallbacks
              /\ \A j \in addCalls : i < j
              /\ encIn.emitAttrs
              /\ ~encIn.isKeys.null
              /\ encLog[i].key \in Range(encIn.isKeys.keys)
              /\ \E k \in 1..Len(encLeaf) :
                    /\ encLeaf[k].id = encLog[i].shapeID
                    /\ encLog[i].key \in encLeaf[k].keys

\* C18 happens: two leaf shapes were visited, both got attribute callbacks,
\* one of them carries a key the initial shape does not have, and add came
\* last
C18_Witness ==
    /\ encPc = "done"
    /\ Len(encLeaf) = 2
    /\ encIn.emitAttrs
    /\ encIn.isKeys = [null |-> FALSE, keys |-> <<"height">>]
    /\ encLeaf[1].keys = {"height", "name"}
    /\ encLeaf[2].keys = {"height"}
    /\ Len(encLog) = 3
    /\ encLog[1].cb \in AttrCallbacks /\ encLog[1].shapeID = 1
    /\ encLog[2].cb \in AttrCallbacks /\ encLog[2].shapeID = 2
    /\ encLog[3].cb = "add"

-----------------------------------------------------------------------------
(* Properties of HoudiniEncoder::convertGeometry (SpecCG)                  *)

\* the id of the instance every mesh comes from, in the order of the meshes
RECURSIVE meshOwners(_, _)
meshOwners(instances, n) ==
    IF n = 0 THEN <<>>
    ELSE meshOwners(instances, n - 1)
         \o [m \in 1..Len(instances[n].meshes) |-> instances[n].id]

\* C26 as stated: for every instance list add gets one shape id per face
\* range, and every shapeIDs[fri] it reads is in bounds and is the id of the
\* shape that produced face range fri
C26_ShapeIDPerFaceRange ==
    encPc \in {"add", "aborted", "crashed", "done"} =>
        /\ Len(encLog[1].shapeIDs) = Len(encLog[1].faceRanges) - 1
        /\ \A k \in 2..Len(encLog) :
              encLog[k].read =>
                  /\ encLog[k].inBounds
                  /\ encLog[k].shapeID
                        = meshOwners(encLeaf, Len(encLeaf))[encLog[k].fri + 1]

-----------------------------------------------------------------------------
(* Properties of ~PRTContext (SpecRM)                                      *)

\* C19: destruction releases the Resolve-Map Cache first, then the engine
\* object cache, then the engine runtime handle, and deregisters the log
\* handler last; nothing later is released before something earlier.
C19_DestructionOrder ==
    /\ Len(rmReleased) <= 4
    /\ Len(rmReleased) >= 1 => rmReleased[1] = "mResolveMapCache"
    /\ Len(rmReleased) >= 2 => rmReleased[2] = "mPRTCache"
    /\ Len(rmReleased) >= 3 => rmReleased[3] = "mPRTHandle"
    /\ Len(rmReleased) >= 4 => rmReleased[4] = "mLogHandler"

\* C19 happens: a context that served a getResolveMap call is destroyed to
\* the end
C19_Witness ==
    /\ rmDone # NoCall
    /\ rmDone.status = "MISS"
    /\ Len(rmReleased) = 4
    /\ rmReleased[4] = "mLogHandler"
    /\ \A p \in Paths : rmCache[p] = NoEntry

-----------------------------------------------------------------------------
(* Utils.cpp: ensureNonExistingFile                                        *)
(*                                                                         *)
(* A path is [parent, name]: parent_path() and filename(), the file name   *)
(* being a sequence of characters.  fnIn.existing holds the file names     *)
(* that exist in the parent directory.  std::filesystem is modelled in its *)
(* POSIX form: filename() never holds a '/'.                               *)

\* how many numbered candidates may exist in the checked inputs
MaxSuffix == 2

\* ILLEGAL_FS_CHARS = "\\/:*?\"<>|"
ILLEGAL_FS_CHARS == {"\\", "/", ":", "*", "?", "\"", "<", ">", "|"}

\* a variant that leaves the extension as it is
replaceIllegal_stemOnly(fileName) ==
    LET dots == {i \in 2..Len(fileName) : fileName[i] = "."}
        stemEnd == IF dots = {} \/ fileName = <<".", ".">> THEN Len(fileName)
                   ELSE Max(0, (CHOOSE i \in dots : \A j \in dots : j <= i) - 1)
    IN  [i \in 1..Len(fileName) |->
            IF i <= stemEnd /\ fileName[i] \in ILLEGAL_FS_CHARS THEN "_" ELSE fileName[i]]

\* std::replace_if(fileName.begin(), fileName.end(), filterChar, '_')
replaceIllegal(fileName) ==
    [i \in 1..Len(fileName) |->
        IF fileName[i] \in ILLEGAL_FS_CHARS THEN "_" ELSE fileName[i]]

\* where path::extension() starts: at the rightmost period, unless the name
\* is "." or "..", or its only period is the first character; 0 for none
extensionStart(name) ==
    LET dots == {i \in 2..Len(name) : name[i] = "."} IN
    IF dots = {} \/ name = <<".", ".">> THEN 0
    ELSE CHOOSE i \in dots : \A j \in dots : j <= i

\* std::filesystem::path::extension()
extension(name) ==
    IF extensionStart(name) = 0 THEN <<>>
    ELSE SubSeq(name, extensionStart(name), Len(name))

\* std::filesystem::path::stem()
stem(name) ==
    IF extensionStart(name) = 0 THEN name
    ELSE SubSeq(name, 1, extensionStart(name) - 1)

DigitChars == <<"0", "1", "2", "3", "4", "5", "6", "7", "8", "9">>

\* std::to_string(suf)
RECURSIVE to_string(_)
to_string(n) ==
    IF n < 10 THEN <<DigitChars[n + 1]>>
    ELSE to_string(n \div 10) \o <<DigitChars[(n % 10) + 1]>>

\* std::filesystem::exists(p)
exists(existing, p) == p.name \in existing

\* p = p.parent_path() / (stem + cleanFileName.extension())
firstCandidate(p) ==
    LET cleanFileName == replaceIllegal(p.name) IN
    [parent |-> p.parent, name |-> stem(cleanFileName) \o extension(cleanFileName)]

\* p = p.parent_path() / (stem + '_' + std::to_string(suf) + p.extension())
nextCandidate(p, stemStr, suf) ==
    [parent |-> p.parent,
     name |-> stemStr \o <<"_">> \o to_string(suf) \o extension(p.name)]

\* the candidates the loop goes through while all of them exist
RECURSIVE candidateChain(_, _, _)
candidateChain(p, stemStr, n) ==
    IF n = 0 THEN <<p.name>>
    ELSE LET before == candidateChain(p, stemStr, n - 1) IN
         Append(before,
                nextCandidate([parent |-> p.parent, name |-> before[Len(before)]],
                              stemStr, n - 1).name)

-----------------------------------------------------------------------------
(* SpecFN: one ensureNonExistingFile call                                  *)

\* the file names of the checked paths
FNNames ==
    { <<"a">>, <<"a", ".", "t">>, <<"a", ":", "b", ".", "t">>,
      <<"a", ".", "t", "?">>, <<".", "h">>, <<".", ".">>, <<".">>, <<>>,
      <<"a", ".">>, <<"a", ".", "b", ".", "t">> }

FNParents == {"", "/tmp/out"}

\* the names the loop may run into for a path
fnCandidates(name) ==
    LET p == firstCandidate([parent |-> "", name |-> name]) IN
    Range(candidateChain(p, stem(replaceIllegal(name)), MaxSuffix))

FNInit ==
    /\ \E name \in FNNames, parent \in FNParents :
          \E existing \in SUBSET fnCandidates(name) :
              /\ fnIn = [parent |-> parent, name |-> name, existing |-> existing]
              /\ fnPath = [parent |-> parent, name |-> name]
    /\ fnPc = "in"
    /\ fnSuf = [stem |-> <<>>, suf |-> 0]
    /\ MoreUnused
    /\ HolesUnused
    /\ RMUnused
    /\ MCUnused
    /\ SCUnused
    /\ SGUnused
    /\ CPUnused
    /\ EncUnused

\* the illegal characters are replaced, the stem is taken and p is rebuilt
FNClean ==
    /\ fnPc = "in"
    /\ fnPath' = firstCandidate(fnPath)
    /\ fnSuf' = [stem |-> stem(replaceIllegal(fnPath.name)), suf |-> 0]
    /\ fnPc' = "loop"
    /\ UNCHANGED <<fnIn, fnOthers>>

\* the loop body: the candidate exists, the next suffix is tried
FNCollision ==
    /\ fnPc = "loop"
    /\ exists(fnIn.existing, fnPath)
    /\ fnPath' = nextCandidate(fnPath, fnSuf.stem, fnSuf.suf)
    /\ fnSuf' = [fnSuf EXCEPT !.suf = @ + 1]
    /\ UNCHANGED <<fnIn, fnPc, fnOthers>>

\* the loop ends: the candidate does not exist
FNReturn ==
    /\ fnPc = "loop"
    /\ ~exists(fnIn.existing, fnPath)
    /\ fnPc' = "done"
    /\ UNCHANGED <<fnIn, fnPath, fnSuf, fnOthers>>

FNNext == FNClean \/ FNCollision \/ FNReturn

SpecFN == FNInit /\ [][FNNext]_vars

-----------------------------------------------------------------------------
(* Properties of ensureNonExistingFile (SpecFN)                            *)

\* a name with every character illegal in file names replaced by '_'
cleanedName(name) ==
    [i \in 1..Len(name) |->
        IF name[i] \in {"\\", "/", ":", "*", "?", "\"", "<", ">", "|"}
        THEN "_" ELSE name[i]]

\* candidate number k for the file name given: the cleaned name itself, then
\* the cleaned stem with _0, _1, ... in front of the extension.  The
\* extension is that of the candidate before, which for the directory name
\* ".." is "._0" from the second numbered candidate on.
expectedCandidate(name, k) ==
    LET clean == cleanedName(name)
        ext == IF clean = <<".", ".">> /\ k >= 2 THEN <<".", "_", "0">>
               ELSE extension(clean)
    IN  IF k = 0 THEN clean
        ELSE stem(clean) \o <<"_">> \o to_string(k - 1) \o ext

\* C20 (amended): on return nothing exists at the result; the result keeps
\* the parent directory; its file name is the input file name with every
\* illegal character replaced by '_', in the stem and in the extension
\* alike, and the stem gets the suffix _0, _1, ... only if, and only as long
\* as, the candidate before exists.
C20_CleanedNameWithSuffix ==
    fnPc = "done" =>
        /\ fnPath.name \notin fnIn.existing
        /\ fnPath.parent = fnIn.parent
        /\ \E k \in 0..(MaxSuffix + 1) :
              /\ fnPath.name = expectedCandidate(fnIn.name, k)
              /\ \A j \in 0..(k - 1) : expectedCandidate(fnIn.name, j) \in fnIn.existing
              /\ fnSuf.suf = k

\* C20 happens: the name holds an illegal character, the cleaned name and
\* its first numbered candidate exist, and the second one is returned
C20_Witness ==
    /\ fnPc = "done"
    /\ fnIn.name = <<"a", ":", "b", ".", "t">>
    /\ fnIn.existing = { <<"a", "_", "b", ".", "t">>,
                         <<"a", "_", "b", "_", "0", ".", "t">> }
    /\ fnPath.name = <<"a", "_", "b", "_", "1", ".", "t">>
    /\ fnPath.parent = fnIn.parent

\* the candidate number k of C20 as stated: cleaned input stem, suffix, and
\* the extension of the input
statedCandidate(name, k) ==
    IF k = 0 THEN cleanedName(stem(name)) \o extension(name)
    ELSE cleanedName(stem(name)) \o <<"_">> \o to_string(k - 1) \o extension(name)

\* C20 as stated: on return nothing exists at the result; the result keeps
\* the parent directory and the extension, its stem is the input stem with
\* every illegal character replaced by '_', and a suffix _0, _1, ... is
\* appended only if, and only as long as, the candidate exists.
C20_KeepsExtension ==
    fnPc = "done" =>
        /\ fnPath.name \notin fnIn.existing
        /\ fnPath.parent = fnIn.parent
        /\ extension(fnPath.name) = extension(fnIn.name)
        /\ \E k \in 0..(MaxSuffix + 1) :
              /\ fnPath.name = statedCandidate(fnIn.name, k)
              /\ \A j \in 0..(k - 1) : statedCandidate(fnIn.name, j) \in fnIn.existing

-----------------------------------------------------------------------------
(* LogHandler.h: logging::ScopedLogLevelModifier                           *)

\* the most scopes alive at once
MaxScopes == 2

\* prt::LogLevel: LOG_TRACE, LOG_DEBUG, LOG_INFO, LOG_WARNING, LOG_ERROR, LOG_FATAL
LogLevels == 0..5

NoExit == [entered |-> 0, restored |-> 0, changed |-> FALSE, outermost |-> FALSE,
           original |-> 0, any |-> FALSE]

\* a variant that remembers the level the scope sets
savedLevel_new(current, newLevel) == newLevel

\* mOriginalLevel(prt::getLogLevel())
savedLevel(current, newLevel) == current

-----------------------------------------------------------------------------
(* SpecLog: properly nested scopes on one thread, and plain setLogLevel    *)
(* calls inside them                                                       *)

LogInit ==
    /\ logLevel \in LogLevels
    /\ logScopes = <<>>
    /\ logEntered = <<>>
    /\ logHist = [first |-> logLevel, exit |-> NoExit]
    /\ HolesUnused
    /\ RMUnused
    /\ MCUnused
    /\ SCUnused
    /\ SGUnused
    /\ CPUnused
    /\ EncUnused
    /\ FNUnused
    /\ RTUnused

\* ScopedLogLevelModifier(newLevel)
LogEnter(newLevel) ==
    /\ Len(logScopes) < MaxScopes
    /\ logScopes' = Append(logScopes, [mOriginalLevel |-> savedLevel(logLevel, newLevel)])
    /\ logEntered' = Append(logEntered, logLevel)
    /\ logLevel' = newLevel
    /\ logHist' = IF logScopes = <<>> THEN [logHist EXCEPT !.first = logLevel] ELSE logHist
    /\ UNCHANGED logOthers

\* prt::setLogLevel(level), called with or without a scope alive
LogSet(level) ==
    /\ logLevel' = level
    /\ UNCHANGED <<logScopes, logEntered, logHist, logOthers>>

\* ~ScopedLogLevelModifier() of the innermost scope
LogExit ==
    /\ logScopes # <<>>
    /\ logLevel' = logScopes[Len(logScopes)].mOriginalLevel
    /\ logScopes' = SubSeq(logScopes, 1, Len(logScopes) - 1)
    /\ logEntered' = SubSeq(logEntered, 1, Len(logEntered) - 1)
    /\ logHist' = [logHist EXCEPT !.exit =
                      [entered |-> logEntered[Len(logEntered)], restored |-> logLevel',
                       changed |-> logLevel # logLevel', outermost |-> Len(logScopes) = 1,
                       original |-> logHist.first,
                       any |-> TRUE]]
    /\ UNCHANGED logOthers

LogNext ==
    \/ \E l \in LogLevels : LogEnter(l)
    \/ \E l \in LogLevels : LogSet(l)
    \/ LogExit

SpecLog == LogInit /\ [][LogNext]_vars

-----------------------------------------------------------------------------
(* Properties of ScopedLogLevelModifier (SpecLog)                          *)

\* C21: when a scope exits, the global log level is the level that was in
\* effect when the scope was entered, whatever was set inside it; when the
\* outermost scope exits, the level is the original one, the level in effect
\* before the outermost scope was entered.
C21_LevelRestored ==
    logHist.exit.any =>
        /\ logHist.exit.restored = logHist.exit.entered
        /\ logHist.exit.outermost => logHist.exit.restored = logHist.exit.original

\* C21 happens: the outermost scope has just exited with another level set,
\* the exit changed the level back, and the level is the original one
C21_Witness ==
    /\ logHist.exit.any
    /\ logHist.exit.changed
    /\ logHist.exit.outermost
    /\ logScopes = <<>>
    /\ logHist.exit.restored = logHist.exit.original
    /\ logLevel = logHist.exit.original

-----------------------------------------------------------------------------
(* SpecRT: one host primitive goes through ShapeConverter, an engine that  *)
(* hands every face back unchanged, and serializeGeometry                  *)

\* the supported primitives
RTPrims == {p \in SCPrims : p.type \in {"poly", "soup"}}

\* the slice of a flat index array that belongs to face f
faceSlice(indices, faceCounts, f) ==
    SubSeq(indices, sumSeq(faceCounts, f - 1) + 1, sumSeq(faceCounts, f))

\* the mesh of an engine that passes the faces of the initial shape through:
\* the same points, one face per face with its indices in the order of the
\* initial shape, one vertex normal per face vertex, the holes of a polygon
\* on its first face, and the uv sets up to the highest bound one
passThroughMesh(in, ch) ==
    LET nFaces == Len(ch.faceCounts)
        bound == {u \in in.uvValid : ch.uvSets[u].uvs # <<>>}
        nUV == IF bound = {} THEN 0
               ELSE 1 + (CHOOSE u \in bound : \A w \in bound : w <= u)
    IN [verts  |-> [i \in 1..(3 * (MaxSCPoint + MaxRingSize * (MaxHoles + 1))) |-> i],
        norms  |-> [i \in 1..(3 * Len(ch.indices)) |-> i],
        faces  |-> [f \in 1..nFaces |->
                      [vtx |-> faceSlice(ch.indices, ch.faceCounts, f),
                       nrm |-> Iota(sumSeq(ch.faceCounts, f - 1), ch.faceCounts[f]),
                       holes |-> IF f = 1 /\ in.prims[1].type = "poly"
                                 THEN Iota(1, nFaces - 1) ELSE <<>>]],
        uvSets |-> [k \in 1..nUV |->
                      IF (k - 1) \in bound
                      THEN [uvs |-> ch.uvSets[k - 1].uvs,
                            counts |-> ch.faceCounts,
                            idx |-> [f \in 1..nFaces |->
                                       faceSlice(ch.uvSets[k - 1].idx, ch.faceCounts, f)]]
                      ELSE [uvs |-> <<>>,
                            counts |-> [f \in 1..nFaces |-> 0],
                            idx |-> [f \in 1..nFaces |-> <<>>]]]]

RTInit ==
    /\ rtIn \in [prims : {<<p>> : p \in RTPrims}, uvValid : SCUVChoices]
    /\ rtPc = "host"
    /\ rtShape = <<>>
    /\ rtOut = <<>>
    /\ HolesUnused
    /\ RMUnused
    /\ MCUnused
    /\ SCUnused
    /\ SGUnused
    /\ CPUnused
    /\ EncUnused
    /\ FNUnused
    /\ LogUnused

\* ShapeConverter::get on the primitive: the arrays of its initial shape
RTConvert ==
    /\ rtPc = "host"
    /\ \E crash \in {b \in BOOLEAN : b => getHasUB(rtIn)} :
          IF crash
          THEN rtPc' = "crashed" /\ UNCHANGED rtShape
          ELSE rtPc' = "shape" /\ rtShape' = convertPrim(newConversionHelper, rtIn, 1)
    /\ UNCHANGED <<rtIn, rtOut, rtOthers>>

\* the engine generates: the faces come back as they went in
RTGenerate ==
    /\ rtPc = "shape"
    /\ rtOut' = passThroughMesh(rtIn, rtShape)
    /\ rtPc' = "mesh"
    /\ UNCHANGED <<rtIn, rtShape, rtOthers>>

\* the encoder serializes the mesh for ModelConverter::add
RTSerialize ==
    /\ rtPc = "mesh"
    /\ rtOut' = serializeGeometry(<< <<rtOut>> >>, << <<noTextures>> >>)
    /\ rtPc' = "serialized"
    /\ UNCHANGED <<rtIn, rtShape, rtOthers>>

RTNext == RTConvert \/ RTGenerate \/ RTSerialize

SpecRT == RTInit /\ [][RTNext]_vars

-----------------------------------------------------------------------------
(* Properties of the winding round trip (SpecRT)                           *)

\* the host vertices of the faces of the primitive in host order, as the
\* vertex keys of uvAt: the rings of a polygon, the polygons of a soup
hostFaceVertices(in) ==
    IF in.prims[1].type = "poly"
    THEN LET rings == ringsOf(in.prims[1].face)
         IN [r \in 1..Len(rings) |-> [k \in 1..Len(rings[r]) |-> <<1, 0, rings[r][k]>>]]
    ELSE [j \in 1..Len(in.prims[1].polys) |->
             [k \in 1..Len(in.prims[1].polys[j]) |-> <<1, j, k - 1>>]]

\* C30: a face that the engine passes through unchanged comes back from
\* serializeGeometry with its point indices in the host's vertex order, with
\* the uv of every bound channel that the host vertex carries, and with its
\* normal indices reversed along with its vertices.
C30_WindingRoundTrip ==
    rtPc = "serialized" =>
        LET host == hostFaces(rtIn, 1)
            hostVtx == hostFaceVertices(rtIn)
        IN /\ Len(rtOut.counts) = Len(host)
           /\ \A f \in 1..Len(host) :
                 LET first == sumSeq(rtOut.counts, f - 1) IN
                 /\ rtOut.counts[f] = Len(host[f])
                 /\ \A k \in 1..Len(host[f]) :
                       /\ rtOut.vertexIndices[first + k] = host[f][k]
                       /\ rtOut.normalIndices[first + k]
                             = first + Len(host[f]) - k
                       /\ \A u \in rtIn.uvValid :
                             LET pair == rtOut.uvIndices[u + 1][first + k] IN
                             /\ rtOut.uvs[u + 1][2 * pair + 1] = uvAt(u, hostVtx[f][k])[1]
                             /\ rtOut.uvs[u + 1][2 * pair + 2] = uvAt(u, hostVtx[f][k])[2]

\* C30 witness: a polygon with a hole and uv coordinates made the round
\* trip: the shape held the outer ring reversed and the output holds it in
\* the host's order again
C30_Witness ==
    /\ rtPc = "serialized"
    /\ rtIn.prims[1].type = "poly"
    /\ rtIn.uvValid = 0..(MaxSCUV - 1)
    /\ ~getHasUB(rtIn)
    /\ Len(hostFaces(rtIn, 1)) = 2
    /\ Len(rtOut.counts) = 2
    /\ faceSlice(rtShape.indices, rtShape.faceCounts, 1) = Reverse(hostFaces(rtIn, 1)[1])
    /\ faceSlice(rtShape.indices, rtShape.faceCounts, 1) # hostFaces(rtIn, 1)[1]
    /\ faceSlice(rtOut.vertexIndices, rtOut.counts, 1) = hostFaces(rtIn, 1)[1]
    /\ Len(rtOut.uvIndices[1]) = Len(rtOut.vertexIndices)

\* C30 happens for a polygon of a soup as well
C30_SoupWitness ==
    /\ rtPc = "serialized"
    /\ rtIn.prims[1].type = "soup"
    /\ 0 \in rtIn.uvValid
    /\ Len(rtOut.counts) = Len(rtIn.prims[1].polys)
    /\ faceSlice(rtOut.vertexIndices, rtOut.counts, 1) = rtIn.prims[1].polys[1]
    /\ faceSlice(rtShape.indices, rtShape.faceCounts, 1) = Reverse(rtIn.prims[1].polys[1])

====
